---- MODULE Spec2Model ----
(***************************************************************************)
(* Model of the hierarchy-resolution engine of SOLID_STRUCTURE:            *)
(*   OLGCodeConverter.convert_olg_code       (Code Normalizer)             *)
(*   HierarchyLevelParser.parse_hierarchy_level (Level Parser)             *)
(*   DataProcessor.process_excel_data        (Row Classifier)              *)
(*   CSVGenerator.build_parent_child_relationships (Relationship Builder)  *)
(*   XLSXToCSVConverter.convert              (Verifier and orchestration)  *)
(*                                                                         *)
(* A Python string is a sequence of one-character strings, so that strip,  *)
(* split, startswith, endswith, replace and count are computed as the      *)
(* code computes them.  A missing cell (None / NaN) is the value NaN.      *)
(***************************************************************************)
EXTENDS Integers, Sequences, FiniteSets, TLC

\* ------------------------------------------------------------------------
\* Bounds of the model
\* ------------------------------------------------------------------------
\* longest position string enumerated for parse_hierarchy_level
MaxItemLen == 4
\* longest raw drawing number enumerated for convert_olg_code
MaxCodeLen == 4
\* most rows of a table handed to process_excel_data
MaxDfRows == 3
\* most rows of a table whose leveled index is handed to the builder
MaxRows == 3
\* most rows of a spreadsheet handed to XLSXToCSVConverter.convert
MaxFileRows == 2

\* ------------------------------------------------------------------------
\* Python strings
\* ------------------------------------------------------------------------
Digits == {"0", "1", "2", "3", "4", "5", "6", "7", "8", "9"}
Letters == {"O", "L", "G", "Z", "A", "B", "R", "T", "a", "n"}
Whitespace == {" "}

\* a missing cell: None or float NaN (pd.isna is true of it)
NaN == <<"NaN">>
\* the result None of a function returning Optional[str]
None == <<"None">>

isna(x) == x = NaN

\* str(x): a missing cell prints as 'nan', a string is itself
str(x) == IF isna(x) THEN <<"n", "a", "n">> ELSE x

\* all strings over the characters cs of length at most n
StringsUpTo(cs, n) == UNION {[1..k -> cs] : k \in 0..n}

RECURSIVE lstrip(_)
lstrip(s) ==
  IF s = <<>> THEN <<>>
  ELSE IF Head(s) \in Whitespace THEN lstrip(Tail(s)) ELSE s

RECURSIVE rstrip(_)
rstrip(s) ==
  IF s = <<>> THEN <<>>
  ELSE IF s[Len(s)] \in Whitespace THEN rstrip(SubSeq(s, 1, Len(s) - 1)) ELSE s

strip(s) == rstrip(lstrip(s))

startswith(s, p) == Len(p) <= Len(s) /\ SubSeq(s, 1, Len(p)) = p

endswith(s, p) == Len(p) <= Len(s) /\ SubSeq(s, Len(s) - Len(p) + 1, Len(s)) = p

\* s.count(c) for a single character c
RECURSIVE count(_, _)
count(s, c) ==
  IF s = <<>> THEN 0
  ELSE (IF Head(s) = c THEN 1 ELSE 0) + count(Tail(s), c)

\* s.replace(c, '') for a single character c
RECURSIVE remove(_, _)
remove(s, c) ==
  IF s = <<>> THEN <<>>
  ELSE IF Head(s) = c THEN remove(Tail(s), c)
  ELSE <<Head(s)>> \o remove(Tail(s), c)

\* s.split(c): the list of segments, empty segments kept
RECURSIVE split(_, _)
split(s, c) ==
  IF \A i \in 1..Len(s) : s[i] # c THEN <<s>>
  ELSE LET i == CHOOSE j \in 1..Len(s) :
                  s[j] = c /\ \A k \in 1..(j - 1) : s[k] # c
       IN <<SubSeq(s, 1, i - 1)>> \o split(SubSeq(s, i + 1, Len(s)), c)

isdigit(s) == s # <<>> /\ \A i \in 1..Len(s) : s[i] \in Digits

isalpha(c) == c \in Letters

\* ------------------------------------------------------------------------
\* OLGCodeConverter.convert_olg_code
\* ------------------------------------------------------------------------
\* a plausible slip: the dashes are removed but the spaces are kept
convert_olg_code_keeps_spaces(olg_code) ==
  IF isna(olg_code) THEN None
  ELSE LET code_str == strip(str(olg_code))
           converted_code ==
             IF startswith(code_str, <<"O", "L">>) /\ Len(code_str) >= 3
                  /\ isalpha(code_str[3])
             THEN SubSeq(code_str, 3, Len(code_str))
             ELSE code_str
           cleaned == remove(converted_code, "-")
       IN IF code_str = <<>> THEN None
          ELSE IF Len(code_str) < 3 THEN code_str
          ELSE IF cleaned = <<>> THEN None
          ELSE cleaned

convert_olg_code(olg_code) ==
  IF isna(olg_code) THEN None
  ELSE LET code_str == strip(str(olg_code))
           converted_code ==
             IF startswith(code_str, <<"O", "L">>) /\ Len(code_str) >= 3
                  /\ isalpha(code_str[3])
             THEN SubSeq(code_str, 3, Len(code_str))
             ELSE code_str
           cleaned == remove(remove(converted_code, "-"), " ")
       IN IF code_str = <<>> THEN None
          ELSE IF Len(code_str) < 3 THEN code_str
          ELSE IF cleaned = <<>> THEN None
          ELSE cleaned

\* ------------------------------------------------------------------------
\* HierarchyLevelParser.parse_hierarchy_level
\* ------------------------------------------------------------------------
\* re.match(r'^[0-9\.\s]+$', s)
MatchesItemFormat(s) ==
  s # <<>> /\ \A i \in 1..Len(s) : s[i] \in Digits \cup {"."} \cup Whitespace

\* a plausible slip: the 'number.0' case is forgotten
parse_hierarchy_level_no_dot_zero(item_str) ==
  IF isna(item_str) THEN -1
  ELSE LET s == strip(str(item_str))
           parts == split(s, ".")
       IN IF s = <<>> THEN -1
          ELSE IF ~MatchesItemFormat(s) THEN -1
          ELSE IF \E i \in 1..Len(parts) :
                     strip(parts[i]) # <<>> /\ ~isdigit(strip(parts[i]))
               THEN -1
          ELSE IF Len(parts) = 1 THEN 0
          ELSE count(s, ".")

parse_hierarchy_level(item_str) ==
  IF isna(item_str) THEN -1
  ELSE LET s == strip(str(item_str))
           parts == split(s, ".")
       IN IF s = <<>> THEN -1
          ELSE IF ~MatchesItemFormat(s) THEN -1
          ELSE IF \E i \in 1..Len(parts) :
                     strip(parts[i]) # <<>> /\ ~isdigit(strip(parts[i]))
               THEN -1
          ELSE IF Len(parts) = 1 THEN 0
          ELSE IF Len(parts) = 2 /\ strip(parts[2]) = <<"0">> THEN 0
          ELSE count(s, ".")

\* ------------------------------------------------------------------------
\* Quantities (column QTD): a number, a missing cell or a text cell
\* ------------------------------------------------------------------------
QNaN == [kind |-> "nan", val |-> 0]
QNum(n) == [kind |-> "num", val |-> n]
\* a cell holding text (a str): pd.notna is true of it
QStr == [kind |-> "str", val |-> 0]

\* pd.notna(quantity)
notna(quantity) == quantity.kind # "nan"

\* (quantity if pd.notna(quantity) else 0)
QtyOrZero(quantity) == IF notna(quantity) THEN quantity.val ELSE 0

\* ------------------------------------------------------------------------
\* Python dicts: insertion order does not matter for these two
\* ------------------------------------------------------------------------
\* d[k] = v
DictSet(d, k, v) == [x \in DOMAIN d \cup {k} |-> IF x = k THEN v ELSE d[x]]

\* d.get(k, default)
DictGet(d, k, default) == IF k \in DOMAIN d THEN d[k] ELSE default

EmptyDict == [x \in {} |-> 0]

\* ------------------------------------------------------------------------
\* DataProcessor.process_excel_data
\* ------------------------------------------------------------------------
CaretReason == "'^' em N DESENHO"
NoCodeReason == "N DESENHO invalido ou ausente (sem codigo convertido)"
InvalidLevelReason == "ITEM invalido (nivel nao identificavel)"

\* '^' in str(drawing_number)
HasCaret(drawing_number) ==
  \E i \in 1..Len(str(drawing_number)) : str(drawing_number)[i] = "^"

\* the locals of process_excel_data before the first row
ClassifierStart ==
  [items_by_level |-> EmptyDict,
   item_to_code |-> EmptyDict,
   ignored_caret_rows |-> 0,
   skipped_no_code_rows |-> 0,
   skipped_invalid_level_rows |-> 0,
   considered_valid_rows |-> 0,
   exclusion_records |-> <<>>]

ExclusionRecord(reason, row, index) ==
  [MOTIVO |-> reason,
   LINHA_XLSX |-> index + 2,
   ITEM |-> strip(str(row.ITEM)),
   QTD |-> row.QTD,
   DESENHO |-> row.DESENHO,
   MP20 |-> row.MP20]

ValidEntry(item, row, child_code, index) ==
  [item |-> item, quantity |-> row.QTD, child_code |-> child_code,
   original_index |-> index]

\* a plausible slip: the level is looked at before the code
ClassifyRow_level_first(c, row, index) ==
  LET item == strip(str(row.ITEM))
      child_code == convert_olg_code(row.DESENHO)
      lvl == parse_hierarchy_level(item)
  IN IF ~isna(row.DESENHO) /\ HasCaret(row.DESENHO) THEN
       [c EXCEPT !.ignored_caret_rows = @ + 1,
                 !.exclusion_records =
                    Append(@, ExclusionRecord(CaretReason, row, index))]
     ELSE IF lvl < 0 THEN
       [c EXCEPT !.skipped_invalid_level_rows = @ + 1,
                 !.exclusion_records =
                    Append(@, ExclusionRecord(InvalidLevelReason, row, index))]
     ELSE IF child_code = None THEN
       [c EXCEPT !.skipped_no_code_rows = @ + 1,
                 !.exclusion_records =
                    Append(@, ExclusionRecord(NoCodeReason, row, index))]
     ELSE
       [c EXCEPT !.items_by_level =
                    DictSet(@, lvl, Append(DictGet(@, lvl, <<>>),
                                           ValidEntry(item, row, child_code, index))),
                 !.item_to_code = DictSet(@, item, child_code),
                 !.considered_valid_rows = @ + 1]

\* one iteration of 'for index, row in df.iterrows()': the three 'continue'
\* branches in their order, then the valid row
ClassifyRow(c, row, index) ==
  LET item == strip(str(row.ITEM))
      child_code == convert_olg_code(row.DESENHO)
      lvl == parse_hierarchy_level(item)
  IN IF ~isna(row.DESENHO) /\ HasCaret(row.DESENHO) THEN
       [c EXCEPT !.ignored_caret_rows = @ + 1,
                 !.exclusion_records =
                    Append(@, ExclusionRecord(CaretReason, row, index))]
     ELSE IF child_code = None THEN
       [c EXCEPT !.skipped_no_code_rows = @ + 1,
                 !.exclusion_records =
                    Append(@, ExclusionRecord(NoCodeReason, row, index))]
     ELSE IF lvl < 0 THEN
       [c EXCEPT !.skipped_invalid_level_rows = @ + 1,
                 !.exclusion_records =
                    Append(@, ExclusionRecord(InvalidLevelReason, row, index))]
     ELSE
       [c EXCEPT !.items_by_level =
                    DictSet(@, lvl, Append(DictGet(@, lvl, <<>>),
                                           ValidEntry(item, row, child_code, index))),
                 !.item_to_code = DictSet(@, item, child_code),
                 !.considered_valid_rows = @ + 1]

\* a plausible slip: the rows with an invalid level are not counted
ProcessingStats_misses_levels(table, c) ==
  [total_rows |-> Len(table),
   valid_rows |-> c.considered_valid_rows,
   excluded_rows |-> c.ignored_caret_rows + c.skipped_no_code_rows,
   duplicate_rows |-> 0,
   consolidated_rows |-> 0,
   generated_relationships |-> 0]

\* stats = ProcessingStats(...) at the end of process_excel_data
ProcessingStats(table, c) ==
  [total_rows |-> Len(table),
   valid_rows |-> c.considered_valid_rows,
   excluded_rows |-> c.ignored_caret_rows + c.skipped_no_code_rows
                       + c.skipped_invalid_level_rows,
   duplicate_rows |-> 0,
   consolidated_rows |-> 0,
   generated_relationships |-> 0]

\* the rows of the table from position n on (row n has index n - 1)
RECURSIVE ClassifyFrom(_, _, _)
ClassifyFrom(c, table, n) ==
  IF n > Len(table) THEN c
  ELSE ClassifyFrom(ClassifyRow(c, table[n], n - 1), table, n + 1)

\* the whole call: the locals after the loop and the statistics
process_excel_data(table) ==
  LET c == ClassifyFrom(ClassifierStart, table, 1)
  IN [items_by_level |-> c.items_by_level,
      item_to_code |-> c.item_to_code,
      exclusion_records |-> c.exclusion_records,
      stats |-> ProcessingStats(table, c)]

\* ------------------------------------------------------------------------
\* CSVGenerator.build_parent_child_relationships
\* ------------------------------------------------------------------------
\* processed_parent_code_to_item is a dict iterated in insertion order: a
\* sequence of entries [code, item, level] with pairwise different codes.
HasKey(d, code) == \E i \in 1..Len(d) : d[i].code = code

\* d[code] = (item, level): an existing key keeps its place
OrdSet(d, code, item, lvl) ==
  IF HasKey(d, code)
  THEN [i \in 1..Len(d) |->
          IF d[i].code = code THEN [code |-> code, item |-> item, level |-> lvl]
          ELSE d[i]]
  ELSE Append(d, [code |-> code, item |-> item, level |-> lvl])

\* d.update(additions)
RECURSIVE OrdUpdate(_, _)
OrdUpdate(d, additions) ==
  IF additions = <<>> THEN d
  ELSE OrdUpdate(OrdSet(d, Head(additions).code, Head(additions).item,
                        Head(additions).level),
                 Tail(additions))

\* a plausible slip: the quantity of a later occurrence replaces the sum
AddOccurrence_overwrites(groups, r) ==
  LET occ == [item |-> r.item, quantity |-> r.quantity,
              original_index |-> r.original_index]
  IN IF \E i \in 1..Len(groups) : groups[i].child_code = r.child_code
     THEN [i \in 1..Len(groups) |->
             IF groups[i].child_code = r.child_code
             THEN [groups[i] EXCEPT !.occurrences = Append(@, occ),
                                    !.total = QtyOrZero(r.quantity)]
             ELSE groups[i]]
     ELSE Append(groups, [child_code |-> r.child_code,
                          occurrences |-> <<occ>>,
                          total |-> QtyOrZero(r.quantity),
                          representative |-> r.item])

\* the body run for a selected row: code_occurrences, the aggregate and the
\* representative item of its code, kept together as one entry per code in
\* the order in which the codes are first met
AddOccurrence(groups, r) ==
  LET occ == [item |-> r.item, quantity |-> r.quantity,
              original_index |-> r.original_index]
  IN IF \E i \in 1..Len(groups) : groups[i].child_code = r.child_code
     THEN [i \in 1..Len(groups) |->
             IF groups[i].child_code = r.child_code
             THEN [groups[i] EXCEPT !.occurrences = Append(@, occ),
                                    !.total = @ + QtyOrZero(r.quantity)]
             ELSE groups[i]]
     ELSE Append(groups, [child_code |-> r.child_code,
                          occurrences |-> <<occ>>,
                          total |-> QtyOrZero(r.quantity),
                          representative |-> r.item])

RECURSIVE AggregateRows(_, _)
AggregateRows(groups, rows) ==
  IF rows = <<>> THEN groups
  ELSE AggregateRows(AddOccurrence(groups, Head(rows)), Tail(rows))

\* a plausible slip: the first occurrence is not recorded as a duplicate
DuplicateRecordsOf_skips_first(g) ==
  IF Len(g.occurrences) > 1
  THEN [i \in 1..(Len(g.occurrences) - 1) |->
          [MOTIVO |-> [text |-> "Montagem duplicada", rank |-> i + 1,
                       of |-> Len(g.occurrences), total_qty |-> g.total],
           LINHA_XLSX |-> g.occurrences[i + 1].original_index + 2,
           ITEM |-> g.occurrences[i + 1].item,
           QTD |-> g.occurrences[i + 1].quantity,
           DESENHO |-> g.child_code,
           MP20 |-> [text |-> "Duplicata", rank |-> i + 1]]]
  ELSE <<>>

\* the duplicate records of one code: all its occurrences when it has
\* more than one
DuplicateRecordsOf(g) ==
  IF Len(g.occurrences) > 1
  THEN [i \in 1..Len(g.occurrences) |->
          [MOTIVO |-> [text |-> "Montagem duplicada", rank |-> i,
                       of |-> Len(g.occurrences), total_qty |-> g.total],
           LINHA_XLSX |-> g.occurrences[i].original_index + 2,
           ITEM |-> g.occurrences[i].item,
           QTD |-> g.occurrences[i].quantity,
           DESENHO |-> g.child_code,
           MP20 |-> [text |-> "Duplicata", rank |-> i]]]
  ELSE <<>>

\* the consolidation record of one (parent, child) pair, when the child
\* code has more than one occurrence
ConsolidationOf(parent_code, g) ==
  IF Len(g.occurrences) > 1
  THEN <<[MOTIVO |-> [text |-> "Relacionamento consolidado",
                      total_qty |-> g.total],
          LINHA_XLSX |-> "N/A",
          ITEM |-> [Parent |-> parent_code],
          QTD |-> g.total,
          DESENHO |-> [Child |-> g.child_code],
          MP20 |-> [Consolidado_de |-> Len(g.occurrences)]]>>
  ELSE <<>>

\* a plausible slip: the parent and the child of the row are exchanged
OutputRow_swapped(parent_code, g) ==
  [EMP |-> "001", MTG |-> g.child_code, COD |-> parent_code,
   QTD |-> g.total, PER |-> 0]

OutputRow(parent_code, g) ==
  [EMP |-> "001", MTG |-> parent_code, COD |-> g.child_code,
   QTD |-> g.total, PER |-> 0]

\* edge_to_quantity[(p, c)] = edge_to_quantity.get((p, c), 0) + total_qty
AddEdge(edges, parent_code, g) ==
  DictSet(edges, <<parent_code, g.child_code>>,
          DictGet(edges, <<parent_code, g.child_code>>, 0) + g.total)

\* the locals of build_parent_child_relationships before level 0;
\* selected is the history of the rows appended to code_occurrences
BuilderStart ==
  [output_rows |-> <<>>,
   edge_to_quantity |-> EmptyDict,
   processed_parent_code_to_item |-> <<>>,
   duplicate_records |-> <<>>,
   consolidated_relationships |-> <<>>,
   selected |-> <<>>]

\* a plausible slip: the edge quantities are kept on the generator between
\* two calls
FreshLocals_keeps_edges(previous) ==
  [BuilderStart EXCEPT !.edge_to_quantity = previous.edge_to_quantity]

\* the locals at the entry of a call, whatever an earlier call left
FreshLocals(previous) == BuilderStart

\* 'for child_code, total_qty in aggregate.items()' of level 0
RECURSIVE EmitLevel0(_, _, _)
EmitLevel0(b, groups, root) ==
  IF groups = <<>> THEN b
  ELSE LET g == Head(groups)
       IN EmitLevel0(
            [b EXCEPT
               !.duplicate_records = @ \o DuplicateRecordsOf(g),
               !.consolidated_relationships = @ \o ConsolidationOf(root, g),
               !.edge_to_quantity = AddEdge(@, root, g),
               !.processed_parent_code_to_item =
                  OrdSet(@, g.child_code, g.representative, 0),
               !.output_rows = Append(@, OutputRow(root, g))],
            Tail(groups), root)

\* the block 'if 0 in items_by_level'
Level0Pass(b, ibl, root) ==
  IF 0 \in DOMAIN ibl
  THEN EmitLevel0([b EXCEPT !.selected =
                      Append(@, [parent_code |-> root, level |-> 0,
                                 rows |-> ibl[0]])],
                  AggregateRows(<<>>, ibl[0]), root)
  ELSE b

\* a plausible slip: the 'number.0' branch is missing
IsSelectedChild_plain_prefix(parent_item, item) ==
  startswith(item, parent_item \o <<".">>)

\* the two prefix tests deciding whether a row of the current level is
\* appended to code_occurrences of the parent
IsSelectedChild(parent_item, item) ==
  IF endswith(parent_item, <<".", "0">>)
  THEN LET parent_prefix == split(parent_item, ".")[1]
       IN startswith(item, parent_prefix \o <<".">>)
            /\ ~endswith(item, <<".", "0">>)
  ELSE startswith(item, parent_item \o <<".">>)

\* 'for child_code, occurrences in code_occurrences.items()'
RECURSIVE DuplicatesOfGroups(_)
DuplicatesOfGroups(groups) ==
  IF groups = <<>> THEN <<>>
  ELSE DuplicateRecordsOf(Head(groups)) \o DuplicatesOfGroups(Tail(groups))

\* a plausible slip: a code already registered is registered again
RegisterCandidate_always(a, g, k) ==
  IF ~HasKey(a.next_level_additions, g.child_code)
  THEN OrdSet(a.next_level_additions, g.child_code, g.representative, k)
  ELSE a.next_level_additions

\* 'if child_code not in processed_parent_code_to_item and child_code not in
\* next_level_additions'
RegisterCandidate(a, g, k) ==
  IF ~HasKey(a.b.processed_parent_code_to_item, g.child_code)
       /\ ~HasKey(a.next_level_additions, g.child_code)
  THEN OrdSet(a.next_level_additions, g.child_code, g.representative, k)
  ELSE a.next_level_additions

\* 'for child_code, total_qty in child_aggregate.items()' of a deeper level;
\* a holds the builder's locals b and next_level_additions
RECURSIVE EmitLevelK(_, _, _, _)
EmitLevelK(a, groups, parent_code, k) ==
  IF groups = <<>> THEN a
  ELSE LET g == Head(groups)
       IN EmitLevelK(
            [b |-> [a.b EXCEPT
                      !.consolidated_relationships =
                         @ \o ConsolidationOf(parent_code, g),
                      !.edge_to_quantity = AddEdge(@, parent_code, g),
                      !.output_rows = Append(@, OutputRow(parent_code, g))],
             next_level_additions |-> RegisterCandidate(a, g, k)],
            Tail(groups), parent_code, k)

\* the body of 'for parent_code, (parent_item, _) in previous_level_parents'
ExpandParent(a, parent, rows, k) ==
  LET Test(r) == IsSelectedChild(parent.item, r.item)
      chosen == SelectSeq(rows, Test)
      groups == AggregateRows(<<>>, chosen)
  IN EmitLevelK(
       [a EXCEPT
          !.b.selected = Append(@, [parent_code |-> parent.code, level |-> k,
                                    rows |-> chosen]),
          !.b.duplicate_records = @ \o DuplicatesOfGroups(groups)],
       groups, parent.code, k)

\* a plausible slip: the parents of a pass are visited last registered first
RECURSIVE ExpandParents_last_first(_, _, _, _)
ExpandParents_last_first(a, parents, rows, k) ==
  IF parents = <<>> THEN a
  ELSE ExpandParents_last_first(
         ExpandParent(a, parents[Len(parents)], rows, k),
         SubSeq(parents, 1, Len(parents) - 1), rows, k)

RECURSIVE ExpandParents(_, _, _, _)
ExpandParents(a, parents, rows, k) ==
  IF parents = <<>> THEN a
  ELSE ExpandParents(ExpandParent(a, Head(parents), rows, k),
                     Tail(parents), rows, k)

\* a plausible slip: the loop goes on without a parent at the previous level
LoopCondition_ignores_parents(b, ibl, k) == k \in DOMAIN ibl

\* the condition of the while loop
LoopCondition(b, ibl, k) ==
  /\ k \in DOMAIN ibl
  /\ \E i \in 1..Len(b.processed_parent_code_to_item) :
        b.processed_parent_code_to_item[i].level = k - 1

\* one iteration of the while loop
LevelPass(b, ibl, k) ==
  LET IsPrevious(e) == e.level = k - 1
      previous_level_parents == SelectSeq(b.processed_parent_code_to_item,
                                          IsPrevious)
      a == ExpandParents([b |-> b, next_level_additions |-> <<>>],
                         previous_level_parents, ibl[k], k)
  IN [a.b EXCEPT !.processed_parent_code_to_item =
                    OrdUpdate(@, a.next_level_additions)]

RECURSIVE LevelLoop(_, _, _)
LevelLoop(b, ibl, k) ==
  IF LoopCondition(b, ibl, k) THEN LevelLoop(LevelPass(b, ibl, k), ibl, k + 1)
  ELSE b

\* the whole call
build_parent_child_relationships(ibl, root) ==
  LevelLoop(Level0Pass(BuilderStart, ibl, root), ibl, 1)

\* 'aggregate.get(child_code, 0) + (quantity if pd.notna(quantity) else 0)'
\* raises TypeError (int + str) when the quantity of a selected row is text
AggregationRaises(rows) ==
  \E i \in 1..Len(rows) : rows[i].quantity.kind = "str"

\* the level 0 block raises
Level0Raises(ibl) == 0 \in DOMAIN ibl /\ AggregationRaises(ibl[0])

\* one iteration of the while loop raises: some parent of the previous
\* level selects a row whose quantity is text
PassRaises(b, ibl, k) ==
  \E i \in 1..Len(b.processed_parent_code_to_item) :
     LET parent == b.processed_parent_code_to_item[i]
         Test(r) == IsSelectedChild(parent.item, r.item)
     IN parent.level = k - 1 /\ AggregationRaises(SelectSeq(ibl[k], Test))

RECURSIVE LoopRaises(_, _, _)
LoopRaises(b, ibl, k) ==
  IF LoopCondition(b, ibl, k)
  THEN PassRaises(b, ibl, k) \/ LoopRaises(LevelPass(b, ibl, k), ibl, k + 1)
  ELSE FALSE

\* the whole call raises instead of returning
BuildRaises(ibl, root) ==
  Level0Raises(ibl) \/ LoopRaises(Level0Pass(BuilderStart, ibl, root), ibl, 1)

\* ------------------------------------------------------------------------
\* ValidationService and XLSXToCSVConverter.convert
\* ------------------------------------------------------------------------
\* truth value of an Optional[str]: None and '' are false
Truthy(x) == ~isna(x) /\ x # <<>>

\* re.match(r'^[A-Za-z0-9\.]+$', s)
MatchesAssemblyFormat(s) ==
  s # <<>> /\ \A i \in 1..Len(s) : s[i] \in Letters \cup Digits \cup {"."}

\* AssemblyCodeValidator.validate_assembly_code(...).is_valid
validate_assembly_code(assembly_code) ==
  IF ~Truthy(assembly_code) THEN FALSE
  ELSE IF Len(strip(str(assembly_code))) < 1 THEN FALSE
  ELSE MatchesAssemblyFormat(strip(str(assembly_code)))

\* FileValidator.validate_file_path(...).is_valid, for a path that is
\* "present" (an existing .xlsx file), "missing" or not given (NaN)
validate_file_path(input_file) == Truthy(input_file) /\ input_file = <<"present">>

\* ValidationService.validate_conversion_request(...).is_valid: the code is
\* validated only if provided
validate_conversion_request(input_file, assembly_code) ==
  /\ validate_file_path(input_file)
  /\ Truthy(assembly_code) => validate_assembly_code(assembly_code)

\* 'if generated_csv_rows != expected_csv_rows'
VerifierMismatch(expected_csv_rows, generated_csv_rows) ==
  generated_csv_rows # expected_csv_rows

\* the ConversionResult of the verification: the failure message carries the
\* two counts, the success result the output file and the statistics
VerificationResult(b, st, final_output_file) ==
  LET expected_csv_rows == Cardinality(DOMAIN b.edge_to_quantity)
      generated_csv_rows == Len(b.output_rows)
  IN IF VerifierMismatch(expected_csv_rows, generated_csv_rows)
     THEN [success |-> FALSE, message |-> "Verificacao de contagem falhou",
           expected_csv_rows |-> expected_csv_rows,
           generated_csv_rows |-> generated_csv_rows]
     ELSE [success |-> TRUE, message |-> "Estrutura exportada com sucesso",
           output_file |-> final_output_file,
           stats |-> [st EXCEPT
                        !.duplicate_rows = Len(b.duplicate_records),
                        !.consolidated_rows = Len(b.consolidated_relationships),
                        !.generated_relationships = Len(b.output_rows)]]

\* a failure result that carries a message only
Failure(message) == [success |-> FALSE, message |-> message]

\* a plausible slip: an empty table is accepted
validate_dataframe_structure_accepts_empty(table) == TRUE

\* DataFrameValidator.validate_dataframe_structure(...).is_valid, for a
\* table that has the four required columns: 'if df.empty' refuses it
validate_dataframe_structure(table) == Len(table) # 0

\* an exception that leaves a function: no result is returned
Escaped(exception) == [raised |-> exception]

\* a plausible slip: the final 'except Exception' clause is missing
ExceptClauses_no_catch_all(exception) ==
  CASE exception = "FileNotFoundError" ->
         Failure("Arquivo de estrutura nao encontrado")
    [] exception = "PermissionError" ->
         Failure("Erro de permissao ao acessar arquivo")
    [] OTHER -> Escaped(exception)

\* the except clauses of XLSXToCSVConverter.convert, for the exceptions its
\* collaborators raise
ExceptClauses(exception) ==
  CASE exception = "FileNotFoundError" ->
         Failure("Arquivo de estrutura nao encontrado")
    [] exception = "PermissionError" ->
         Failure("Erro de permissao ao acessar arquivo")
    [] OTHER -> Failure("Erro inesperado durante a exportacao")

\* what the caller of entry gets when XLSXToCSVConverter.convert ends with
\* r: MultiTypeConverter.convert wraps the call in 'except Exception'
Returned(entry, r) ==
  IF entry = "MultiTypeConverter.convert" /\ "raised" \in DOMAIN r
  THEN Failure("Erro inesperado durante a conversao")
  ELSE r

\* the conversion types that MultiTypeConverter registers a converter for
HasConverter(type) ==
  type \in {"PARTS_REGISTRATION", "DESCRIPTION_UPDATE", "MATERIAL_UPDATE",
            "OLZ_VERIFICATION"}

\* ------------------------------------------------------------------------
\* ReportGenerator.generate_exclusions_report
\* ------------------------------------------------------------------------
\* a record of the report, tagged with the part of the report it belongs to
Tagged(kind, records) ==
  [i \in 1..Len(records) |-> [kind |-> kind, record |-> records[i]]]

HeaderRecord ==
  [MOTIVO |-> "Cabecalho do arquivo XLSX", LINHA_XLSX |-> 1,
   ITEM |-> "Cabecalho", QTD |-> "N/A",
   DESENHO |-> "ITEM;QTD;N DESENHO;CODIGO MP20", MP20 |-> "N/A"]

\* the levels of items_by_level in the order of 'items_by_level.items()':
\* the order in which the levels first occur in the source
RECURSIVE LevelsInOrder(_, _)
LevelsInOrder(ibl, left) ==
  IF left = {} THEN <<>>
  ELSE LET l == CHOOSE x \in left : \A y \in left :
                   ibl[x][1].original_index <= ibl[y][1].original_index
       IN <<l>> \o LevelsInOrder(ibl, left \ {l})

\* the 'Filho de montagem consolidada' record of one row
ChildRecord(consolidated, r) ==
  [MOTIVO |-> [text |-> "Filho de montagem consolidada",
               parent_qty |-> consolidated.total_qty],
   LINHA_XLSX |-> r.original_index + 2,
   ITEM |-> r.item,
   QTD |-> r.quantity,
   DESENHO |-> r.child_code,
   MP20 |-> [Parent |-> consolidated.parent_code,
             occurrences |-> consolidated.occurrences]]

\* 'for level, items in items_by_level.items()' for one consolidated parent
RECURSIVE ChildrenOfConsolidated(_, _, _)
ChildrenOfConsolidated(consolidated, ibl, levels) ==
  IF levels = <<>> THEN <<>>
  ELSE LET Under(r) == startswith(r.item, consolidated.parent_item \o <<".">>)
           found == SelectSeq(ibl[Head(levels)], Under)
       IN [i \in 1..Len(found) |-> ChildRecord(consolidated, found[i])]
            \o ChildrenOfConsolidated(consolidated, ibl, Tail(levels))

\* 'for consolidated in consolidated_children'
RECURSIVE ConsolidatedChildrenRecords(_, _)
ConsolidatedChildrenRecords(consolidated_children, ibl) ==
  IF consolidated_children = <<>> THEN <<>>
  ELSE ChildrenOfConsolidated(Head(consolidated_children), ibl,
                              LevelsInOrder(ibl, DOMAIN ibl))
         \o ConsolidatedChildrenRecords(Tail(consolidated_children), ibl)

\* the three closing records: the counts they carry
SummaryRecords(excluded, duplicates, consolidations, total_original_rows, rows) ==
  <<[MOTIVO |-> "RESUMO ESTATISTICO",
     total_rows |-> total_original_rows + 1,
     data_rows |-> total_original_rows,
     csv_rows |-> Len(rows),
     removed |-> Len(excluded) + 1,
     duplicates |-> Len(duplicates),
     consolidated |-> Len(consolidations)],
    [MOTIVO |-> "DETALHAMENTO REMOCOES",
     processed |-> total_original_rows - Len(excluded)],
    [MOTIVO |-> "ANALISE MATEMATICA",
     total_input |-> total_original_rows + 1,
     total_excluded |-> Len(excluded) + 1 + Len(duplicates),
     total_output |-> Len(rows),
     difference |-> (total_original_rows + 1)
                      - (Len(excluded) + 1 + Len(duplicates)) - Len(rows)]>>

\* comprehensive_records, the rows of the report
comprehensive_records(excluded, duplicates, consolidations, consolidated_children, ibl, total_original_rows, rows) ==
  Tagged("header", <<HeaderRecord>>)
    \o Tagged("exclusion", excluded)
    \o Tagged("duplicate", duplicates)
    \o Tagged("consolidation", consolidations)
    \o Tagged("child", ConsolidatedChildrenRecords(consolidated_children, ibl))
    \o Tagged("summary", SummaryRecords(excluded, duplicates, consolidations,
                                         total_original_rows, rows))

\* a plausible slip: the exception of a failed write leaves the function
generate_exclusions_report_propagates(records, write_ok) ==
  IF write_ok
  THEN [raised |-> FALSE, written |-> TRUE, records |-> records]
  ELSE [raised |-> TRUE, written |-> FALSE, records |-> <<>>]

\* generate_exclusions_report: the report is written, or the exception of
\* the failed write is caught and logged
generate_exclusions_report(records, write_ok) ==
  IF write_ok
  THEN [raised |-> FALSE, written |-> TRUE, records |-> records]
  ELSE [raised |-> FALSE, written |-> FALSE, records |-> <<>>]

\* ------------------------------------------------------------------------
\* State
\* ------------------------------------------------------------------------
VARIABLES
  pc,            \* position of the running operation
  olg_code,      \* convert_olg_code: its argument
  converted,     \* convert_olg_code: its return value
  item_str,      \* parse_hierarchy_level: its argument
  level,         \* parse_hierarchy_level: its return value
  df,            \* the source table: a sequence of rows
  index,         \* process_excel_data: rows [0, index) have been classified
  classifier,    \* process_excel_data: its locals
  stats,         \* ProcessingStats returned by process_excel_data
  root_assembly_code,
  current_level, \* build_parent_child_relationships: the level counter
  builder,       \* build_parent_child_relationships: its locals
  first_call,    \* what an earlier call on the same CSVGenerator returned
  entry_point,   \* the function the caller invokes
  conversion_type, \* MultiTypeConverter.convert: its conversion_type
  request,       \* convert: the ConversionRequest
  file_rows,     \* the rows of the spreadsheet at request.input_file
  reference_codes, \* the codes of the sheet at SOLID_OLZ_REFERENCE_FILE
  app,           \* the application window: its fields and its widgets
  threads,       \* the conversion threads the application has started
  csv_file,      \* the edge CSV in the sink: whether written, and its rows
  report_file,   \* whether the audit report was written to the sink
  report_records, \* the records of the audit report written
  result         \* convert: the ConversionResult returned

codeVars == <<olg_code, converted>>
levelVars == <<item_str, level>>
classifierVars == <<df, index, classifier, stats>>
builderVars == <<root_assembly_code, current_level, builder, first_call>>
\* the shell that invokes the conversions
shellVars == <<app, threads>>
\* what surrounds a conversion: the request, the files it reads, the shell
requestVars ==
  <<entry_point, conversion_type, request, file_rows, reference_codes,
    shellVars>>
convertVars == <<requestVars, csv_file, report_file, report_records, result>>
vars == <<pc, codeVars, levelVars, classifierVars, builderVars, convertVars>>

NoStats == ProcessingStats(<<>>, ClassifierStart)

ShellIdle == app = <<>> /\ threads = <<>>
CodeIdle == olg_code = <<>> /\ converted = None
LevelIdle == item_str = <<>> /\ level = 0
BuilderIdle ==
  /\ root_assembly_code = <<>> /\ current_level = 0 /\ builder = BuilderStart
  /\ first_call = <<>>
NoFile == [written |-> FALSE, rows |-> <<>>]
NoResult == [success |-> FALSE, message |-> "pending"]
ConvertIdle ==
  /\ entry_point = "none"
  /\ conversion_type = "none"
  /\ request = [input_file |-> NaN, assembly_code |-> NaN]
  /\ file_rows = <<>>
  /\ reference_codes = {}
  /\ ShellIdle
  /\ csv_file = NoFile
  /\ report_file = FALSE
  /\ report_records = <<>>
  /\ result = NoResult

\* the names used by the claims
items_by_level == classifier.items_by_level
exclusion_records == classifier.exclusion_records
output_rows == builder.output_rows
edge_to_quantity == builder.edge_to_quantity
processed_parent_code_to_item == builder.processed_parent_code_to_item
duplicate_records == builder.duplicate_records
consolidated_relationships == builder.consolidated_relationships
selected == builder.selected

\* characters of the enumerated position strings and raw drawing numbers
ItemChars == {"1", "0", ".", " ", "a"}
CodeChars == {"O", "L", "G", "1", "-", " "}

\* the docstring example of convert_olg_code
DocExample ==
  <<"O", "L", "G", "1", "2", "-", "0", "6", "-", "1", "0", "0", "1">>

\* table is a table of at most n rows over the given cells
IsTable(table, items, qtys, drawings, n) ==
  \E k \in 0..n :
    table \in [1..k -> [ITEM : items, QTD : qtys, DESENHO : drawings,
                        MP20 : {"M1"}]]

\* ------------------------------------------------------------------------
\* Specification SpecCode: one call of convert_olg_code on any raw value
\* ------------------------------------------------------------------------
InitCode ==
  /\ pc = "call"
  /\ olg_code \in StringsUpTo(CodeChars, MaxCodeLen) \cup {NaN, DocExample}
  /\ converted = None
  /\ LevelIdle
  /\ df = <<>> /\ index = 0 /\ classifier = ClassifierStart /\ stats = NoStats
  /\ BuilderIdle /\ ConvertIdle

ConvertCode ==
  /\ pc = "call"
  /\ converted' = convert_olg_code(olg_code)
  /\ pc' = "returned"
  /\ UNCHANGED <<olg_code, levelVars, classifierVars, builderVars, convertVars>>

NextCode == ConvertCode

SpecCode == InitCode /\ [][NextCode]_vars

\* ------------------------------------------------------------------------
\* Specification SpecLevel: one call of parse_hierarchy_level on any value
\* ------------------------------------------------------------------------
InitLevel ==
  /\ pc = "call"
  /\ item_str \in StringsUpTo(ItemChars, MaxItemLen) \cup {NaN}
  /\ level = 0
  /\ CodeIdle
  /\ df = <<>> /\ index = 0 /\ classifier = ClassifierStart /\ stats = NoStats
  /\ BuilderIdle /\ ConvertIdle

ParseLevel ==
  /\ pc = "call"
  /\ level' = parse_hierarchy_level(item_str)
  /\ pc' = "returned"
  /\ UNCHANGED <<item_str, codeVars, classifierVars, builderVars, convertVars>>

NextLevel == ParseLevel

SpecLevel == InitLevel /\ [][NextLevel]_vars

\* ------------------------------------------------------------------------
\* Specification SpecClassify: one call of process_excel_data on any table
\* ------------------------------------------------------------------------
ClassifyItems == {<<"1">>, <<"1", ".", "1">>, <<"a">>}
ClassifyQtys == {QNum(1), QNaN}
ClassifyDrawings ==
  {<<"O", "L", "G", "1">>, DocExample \o <<"^">>, <<"-", " ", "-">>, NaN}

InitClassify ==
  /\ pc = "rows"
  /\ IsTable(df, ClassifyItems, ClassifyQtys, ClassifyDrawings, MaxDfRows)
  /\ index = 0
  /\ classifier = ClassifierStart
  /\ stats = NoStats
  /\ CodeIdle /\ LevelIdle /\ BuilderIdle /\ ConvertIdle

\* one iteration of the loop over the rows
ClassifyNextRow ==
  /\ pc = "rows"
  /\ index < Len(df)
  /\ classifier' = ClassifyRow(classifier, df[index + 1], index)
  /\ index' = index + 1
  /\ UNCHANGED <<pc, df, stats, codeVars, levelVars, builderVars, convertVars>>

\* the loop is over: the statistics are built and the call returns
ClassifyReturn ==
  /\ pc = "rows"
  /\ index = Len(df)
  /\ stats' = ProcessingStats(df, classifier)
  /\ pc' = "classified"
  /\ UNCHANGED <<df, index, classifier, codeVars, levelVars, builderVars,
               convertVars>>

NextClassify == ClassifyNextRow \/ ClassifyReturn

SpecClassify == InitClassify /\ [][NextClassify]_vars

\* ------------------------------------------------------------------------
\* Specification Spec: one call of build_parent_child_relationships on the
\* leveled index that process_excel_data returns for any table, with a root
\* code that is or is not one of the component codes
\* ------------------------------------------------------------------------
BuildItems ==
  {<<"1">>, <<"1", ".", "0">>, <<"1", ".", "1">>, <<"2", ".", "1">>,
   <<"1", ".", "1", ".", "1">>}
BuildQtys == {QNum(1), QNaN}
BuildDrawings == {<<"O", "L", "G", "1">>, <<"O", "L", "Z", "-", "2">>}
ROOT == <<"R", "O", "O", "T">>
Roots == {ROOT, <<"G", "1">>}

\* the tables of Scenario A and Scenario B
ScenarioA ==
  <<[ITEM |-> <<"1">>, QTD |-> QNum(2), DESENHO |-> DocExample, MP20 |-> "M1"],
    [ITEM |-> <<"1", ".", "1">>, QTD |-> QNum(3),
     DESENHO |-> <<"O", "L", "Z", "-", "2">>, MP20 |-> "M1"]>>
ScenarioB ==
  <<[ITEM |-> <<"1">>, QTD |-> QNum(2), DESENHO |-> DocExample, MP20 |-> "M1"],
    [ITEM |-> <<"2">>, QTD |-> QNum(3), DESENHO |-> DocExample, MP20 |-> "M1"]>>

\* a table in which the parent registered at depth 2 has the position 1.1.0
\* and the level-3 row at 1.2.1.1 does not lie under it
DotZeroAtDepth2 ==
  <<[ITEM |-> <<"1">>, QTD |-> QNum(1), DESENHO |-> <<"O", "L", "G", "1">>,
     MP20 |-> "M1"],
    [ITEM |-> <<"1", ".", "1">>, QTD |-> QNum(1),
     DESENHO |-> <<"O", "L", "Z", "-", "2">>, MP20 |-> "M1"],
    [ITEM |-> <<"1", ".", "1", ".", "0">>, QTD |-> QNum(1),
     DESENHO |-> <<"O", "L", "G", "3">>, MP20 |-> "M1"],
    [ITEM |-> <<"1", ".", "2", ".", "1", ".", "1">>, QTD |-> QNum(1),
     DESENHO |-> <<"O", "L", "G", "4">>, MP20 |-> "M1"]>>

\* a table in which the parent registered first (position 2) selects a row
\* of a code, at 2.1, that comes later in the source than the row of the
\* same code, at 1.1, selected by the parent registered second
LaterParentEarlierRow ==
  <<[ITEM |-> <<"2">>, QTD |-> QNum(1), DESENHO |-> <<"O", "L", "G", "1">>,
     MP20 |-> "M1"],
    [ITEM |-> <<"1">>, QTD |-> QNum(1), DESENHO |-> <<"O", "L", "Z", "-", "2">>,
     MP20 |-> "M1"],
    [ITEM |-> <<"1", ".", "1">>, QTD |-> QNum(1),
     DESENHO |-> <<"O", "L", "G", "3">>, MP20 |-> "M1"],
    [ITEM |-> <<"2", ".", "1">>, QTD |-> QNum(1),
     DESENHO |-> <<"O", "L", "G", "3">>, MP20 |-> "M1"]>>

Init ==
  /\ pc = "level0"
  /\ \/ IsTable(df, BuildItems, BuildQtys, BuildDrawings, MaxRows)
     \/ df \in {ScenarioA, ScenarioB, LaterParentEarlierRow, DotZeroAtDepth2}
  /\ index = Len(df)
  /\ classifier = ClassifyFrom(ClassifierStart, df, 1)
  /\ stats = ProcessingStats(df, classifier)
  /\ root_assembly_code \in Roots
  /\ current_level = 0
  /\ builder = BuilderStart
  /\ first_call = <<>>
  /\ CodeIdle /\ LevelIdle /\ ConvertIdle

\* the level 0 block, up to 'current_level = 1'; when the aggregation
\* raises, the call ends with the exception and its locals are dropped
BuildLevel0 ==
  /\ pc = "level0"
  /\ IF Level0Raises(items_by_level)
     THEN /\ pc' = "raised"
          /\ UNCHANGED <<current_level, builder>>
     ELSE /\ builder' = Level0Pass(builder, items_by_level, root_assembly_code)
          /\ current_level' = 1
          /\ pc' = "loop"
  /\ UNCHANGED <<root_assembly_code, first_call, codeVars, levelVars,
               classifierVars, convertVars>>

\* one iteration of the while loop
BuildLevelPass ==
  /\ pc = "loop"
  /\ LoopCondition(builder, items_by_level, current_level)
  /\ IF PassRaises(builder, items_by_level, current_level)
     THEN /\ pc' = "raised"
          /\ UNCHANGED <<current_level, builder>>
     ELSE /\ builder' = LevelPass(builder, items_by_level, current_level)
          /\ current_level' = current_level + 1
          /\ pc' = pc
  /\ UNCHANGED <<root_assembly_code, first_call, codeVars, levelVars,
               classifierVars, convertVars>>

\* the loop condition is false: the call returns
BuildReturn ==
  /\ pc = "loop"
  /\ ~LoopCondition(builder, items_by_level, current_level)
  /\ pc' = "returned"
  /\ UNCHANGED <<codeVars, levelVars, classifierVars, builderVars, convertVars>>

Next == BuildLevel0 \/ BuildLevelPass \/ BuildReturn

Spec == Init /\ [][Next]_vars

\* ------------------------------------------------------------------------
\* Specification SpecQty: one call of build_parent_child_relationships on
\* tables whose quantities are numbers, missing cells or text cells
\* ------------------------------------------------------------------------
MaxQtyRows == 3
QtyItems == {<<"1">>, <<"1", ".", "1">>, <<"2", ".", "1">>}
QtyQtys == {QNum(1), QNum(2), QNaN, QStr}
QtyDrawings == {<<"O", "L", "G", "1">>, <<"O", "L", "Z", "-", "2">>}

InitQty ==
  /\ pc = "level0"
  /\ IsTable(df, QtyItems, QtyQtys, QtyDrawings, MaxQtyRows)
  /\ index = Len(df)
  /\ classifier = ClassifyFrom(ClassifierStart, df, 1)
  /\ stats = ProcessingStats(df, classifier)
  /\ root_assembly_code = ROOT
  /\ current_level = 0
  /\ builder = BuilderStart
  /\ first_call = <<>>
  /\ CodeIdle /\ LevelIdle /\ ConvertIdle

SpecQty == InitQty /\ [][Next]_vars

\* ------------------------------------------------------------------------
\* Claims about parse_hierarchy_level
\* ------------------------------------------------------------------------
IsBlank(s) == \A i \in 1..Len(s) : s[i] \in Whitespace

\* the segments of s between its dots, as pairs of delimiting positions
\* (0 and Len(s)+1 delimit the first and the last segment)
SegmentBounds(s) ==
  LET Delim(i) == i = 0 \/ i = Len(s) + 1 \/ s[i] = "."
  IN {b \in (0..Len(s)) \X (1..(Len(s) + 1)) :
        /\ b[1] < b[2]
        /\ Delim(b[1]) /\ Delim(b[2])
        /\ \A k \in (b[1] + 1)..(b[2] - 1) : s[k] # "."}

SegmentAt(s, b) == SubSeq(s, b[1] + 1, b[2] - 1)

\* the second segment of a string with at least one dot
SecondSegment(s) ==
  LET b == CHOOSE c \in SegmentBounds(s) :
             c[1] # 0 /\ \A d \in SegmentBounds(s) : d[1] # 0 => c[1] <= d[1]
  IN SegmentAt(s, b)

DotCount(s) == Cardinality({i \in 1..Len(s) : s[i] = "."})

\* the level as C8 states it: segments are taken as they stand
LevelAsStated(s) ==
  IF IsBlank(s) THEN -1
  ELSE IF \E i \in 1..Len(s) : s[i] \notin Digits \cup {"."} \cup Whitespace
       THEN -1
  ELSE IF \E b \in SegmentBounds(s) :
            SegmentAt(s, b) # <<>> /\ ~isdigit(SegmentAt(s, b))
       THEN -1
  ELSE IF DotCount(s) = 0 THEN 0
  ELSE IF DotCount(s) = 1 /\ SecondSegment(s) = <<"0">> THEN 0
  ELSE DotCount(s)

\* the level with the string and every segment trimmed of surrounding
\* whitespace before they are looked at
LevelTrimmed(s) ==
  LET t == strip(s)
  IN IF IsBlank(s) THEN -1
     ELSE IF \E i \in 1..Len(t) : t[i] \notin Digits \cup {"."} \cup Whitespace
          THEN -1
     ELSE IF \E b \in SegmentBounds(t) :
               strip(SegmentAt(t, b)) # <<>> /\ ~isdigit(strip(SegmentAt(t, b)))
          THEN -1
     ELSE IF DotCount(t) = 0 THEN 0
     ELSE IF DotCount(t) = 1 /\ strip(SecondSegment(t)) = <<"0">> THEN 0
     ELSE DotCount(t)

\* C8 as stated: parse_hierarchy_level returns -1 for a blank string, for a
\* character other than digit, dot or whitespace and for a non-empty segment
\* that is not all digits; otherwise 0 with no dot, 0 for two segments whose
\* second is '0', and the number of dots in every other case.
C8_AsStated ==
  (pc = "returned" /\ ~isna(item_str)) => level = LevelAsStated(item_str)

\* C8 amended: the same rules, applied to the string trimmed of surrounding
\* whitespace and to each segment trimmed of surrounding whitespace.
C8_LevelTrimmed ==
  (pc = "returned" /\ ~isna(item_str)) => level = LevelTrimmed(item_str)

\* a position with a space next to a dot has been parsed to a level >= 1
C8_Witness ==
  /\ pc = "returned"
  /\ item_str = <<"1", " ", ".", "1">>
  /\ level = 1

\* ------------------------------------------------------------------------
\* Claims about convert_olg_code
\* ------------------------------------------------------------------------
\* s without its dashes and spaces
WithoutDashesAndSpaces(s) ==
  LET keep == {i \in 1..Len(s) : s[i] \notin {"-", " "}}
      \* the i-th kept position, in increasing order
      Kth(i) == CHOOSE k \in keep : Cardinality({j \in keep : j < k}) = i - 1
  IN [i \in 1..Cardinality(keep) |-> s[Kth(i)]]

HasOLPrefix(s) ==
  Len(s) >= 3 /\ s[1] = "O" /\ s[2] = "L" /\ s[3] \in Letters

\* the rules of C9 applied to the string s
NormalizeRules(s) ==
  IF IsBlank(s) THEN None
  ELSE IF Len(s) < 3 THEN s
  ELSE LET kept == IF HasOLPrefix(s) THEN [i \in 1..(Len(s) - 2) |-> s[i + 2]]
                   ELSE s
           clean == WithoutDashesAndSpaces(kept)
       IN IF clean = <<>> THEN None ELSE clean

\* C9 as stated: blank or missing input gives None, input shorter than 3
\* characters is returned unchanged, otherwise a leading 'OL' followed by a
\* letter is stripped, every '-' and space is removed, and an empty result
\* gives None; the rules are applied to the raw drawing number.
C9_AsStated ==
  pc = "returned" =>
    converted = (IF isna(olg_code) THEN None ELSE NormalizeRules(olg_code))

\* C9 amended: the same rules, applied to the raw drawing number trimmed of
\* its surrounding whitespace.
C9_NormalizeTrimmed ==
  pc = "returned" =>
    converted = (IF isna(olg_code) THEN None ELSE NormalizeRules(strip(olg_code)))

\* the example of the claim has been converted
C9_Witness ==
  /\ pc = "returned"
  /\ olg_code = DocExample
  /\ converted = <<"G", "1", "2", "0", "6", "1", "0", "0", "1">>

\* ------------------------------------------------------------------------
\* Claims about process_excel_data
\* ------------------------------------------------------------------------
\* the places of the leveled index that hold the row of index i
BucketPlaces(i) ==
  {p \in UNION {{l} \X (1..Len(items_by_level[l])) : l \in DOMAIN items_by_level} :
     items_by_level[p[1]][p[2]].original_index = i}

\* the exclusion records made for the row of index i
ExclusionPlaces(i) ==
  {k \in 1..Len(exclusion_records) : exclusion_records[k].LINHA_XLSX = i + 2}

\* C4: every classified row is in exactly one level bucket or in exactly one
\* ExclusionRecord, never both and never neither, whatever was excluded
\* before it; on return all rows are classified, total_rows = valid_rows +
\* excluded_rows and len(exclusion_records) = excluded_rows.
C4_ExclusionComplete ==
  /\ \A i \in 0..(index - 1) :
        Cardinality(BucketPlaces(i)) + Cardinality(ExclusionPlaces(i)) = 1
  /\ pc = "classified" =>
       /\ index = Len(df)
       /\ stats.total_rows = Len(df)
       /\ stats.total_rows = stats.valid_rows + stats.excluded_rows
       /\ Len(exclusion_records) = stats.excluded_rows
       /\ stats.valid_rows =
            Cardinality(UNION {BucketPlaces(i) : i \in 0..(Len(df) - 1)})

\* an excluded row of each kind is followed by a row that was classified valid
C4_Witness ==
  /\ pc = "classified"
  /\ Len(df) = 3
  /\ ExclusionPlaces(0) # {} /\ ExclusionPlaces(1) # {}
  /\ exclusion_records[1].MOTIVO = InvalidLevelReason
  /\ BucketPlaces(2) # {}
  /\ stats.excluded_rows = 2 /\ stats.valid_rows = 1

ContainsCaret(cell) == ~isna(cell) /\ "^" \in {cell[k] : k \in 1..Len(cell)}

ReasonsOf(i) == {exclusion_records[k].MOTIVO : k \in ExclusionPlaces(i)}

\* C6: the rules are applied in the order caret, no valid code, unparseable
\* level, and the first match decides: a caret row is excluded with the caret
\* reason whatever its position and code, a row without a valid code with the
\* no-code reason even when its position is unparseable too, and only a row
\* with a valid code is excluded for its level.
C6_RuleOrder ==
  \A i \in 0..(index - 1) :
    LET row == df[i + 1]
        no_code == convert_olg_code(row.DESENHO) = None
        no_level == parse_hierarchy_level(strip(str(row.ITEM))) = -1
    IN /\ ContainsCaret(row.DESENHO) => ReasonsOf(i) = {CaretReason}
       /\ (~ContainsCaret(row.DESENHO) /\ no_code) => ReasonsOf(i) = {NoCodeReason}
       /\ (~ContainsCaret(row.DESENHO) /\ ~no_code /\ no_level)
             => ReasonsOf(i) = {InvalidLevelReason}
       /\ (~ContainsCaret(row.DESENHO) /\ ~no_code /\ ~no_level)
             => ReasonsOf(i) = {}

\* a caret row and a row without code, both with an unparseable position,
\* have been excluded with the caret and the no-code reason
C6_Witness ==
  /\ index >= 2
  /\ df[1].ITEM = <<"a">> /\ df[1].DESENHO = DocExample \o <<"^">>
  /\ ReasonsOf(0) = {CaretReason}
  /\ df[2].ITEM = <<"a">> /\ isna(df[2].DESENHO)
  /\ ReasonsOf(1) = {NoCodeReason}

\* ------------------------------------------------------------------------
\* Claims about build_parent_child_relationships
\* ------------------------------------------------------------------------
RECURSIVE SumQty(_)
SumQty(rows) ==
  IF rows = <<>> THEN 0
  ELSE (IF Head(rows).quantity.kind = "num" THEN Head(rows).quantity.val ELSE 0)
         + SumQty(Tail(rows))

RECURSIVE SumQTD(_)
SumQTD(rows) == IF rows = <<>> THEN 0 ELSE Head(rows).QTD + SumQTD(Tail(rows))

\* C1: after the call output_rows holds exactly one row per distinct
\* (MTG, COD) pair, so len(output_rows) = len(edge_to_quantity), for every
\* leveled index and every root code.
C1_OneRowPerPair ==
  pc = "returned" =>
    /\ Len(output_rows) = Cardinality(DOMAIN edge_to_quantity)
    /\ \A i, j \in 1..Len(output_rows) :
          (output_rows[i].MTG = output_rows[j].MTG
             /\ output_rows[i].COD = output_rows[j].COD) => i = j

\* the rows emitted for the parent code p
RowsEmittedFor(p) == LET Test(r) == r.MTG = p IN SelectSeq(output_rows, Test)

\* the passes in which rows were selected as children of the parent code p
PassesOf(p) == {k \in 1..Len(selected) : selected[k].parent_code = p}

RECURSIVE SumOverPasses(_)
SumOverPasses(ks) ==
  IF ks = {} THEN 0
  ELSE LET k == CHOOSE x \in ks : TRUE
       IN SumQty(selected[k].rows) + SumOverPasses(ks \ {k})

\* C2: for every parent code in the output, the root included, the QTD of
\* the edges emitted for it add up to the quantities (missing counted as 0)
\* of the rows selected as its children: nothing is dropped or invented.
C2_Conservation ==
  \A p \in {output_rows[i].MTG : i \in 1..Len(output_rows)}
             \cup {selected[k].parent_code : k \in 1..Len(selected)} :
    SumQTD(RowsEmittedFor(p)) = SumOverPasses(PassesOf(p))

\* a parent below the root got several rows, one of them without quantity,
\* and its edges carry the sum of the others
C2_Witness ==
  /\ pc = "returned"
  /\ root_assembly_code = ROOT
  /\ \E k \in 1..Len(selected) :
        /\ selected[k].level = 1
        /\ Len(selected[k].rows) = 2
        /\ selected[k].rows[1].quantity = QNaN
        /\ selected[k].rows[2].quantity = QNum(1)
        /\ selected[k].rows[1].child_code = selected[k].rows[2].child_code
        /\ SumQTD(RowsEmittedFor(selected[k].parent_code)) = 1

\* C3, the step part: an entry of processed_parent_code_to_item keeps its
\* code, representative position and depth in every step.
EntriesKept ==
  /\ Len(processed_parent_code_to_item') >= Len(processed_parent_code_to_item)
  /\ \A i \in 1..Len(processed_parent_code_to_item) :
        processed_parent_code_to_item'[i] = processed_parent_code_to_item[i]

\* C3, the state part: every code is registered once, and its children are
\* aggregated in at most one pass of the level loop.
ExpandedOnce ==
  /\ \A i, j \in 1..Len(processed_parent_code_to_item) :
        processed_parent_code_to_item[i].code
          = processed_parent_code_to_item[j].code => i = j
  /\ \A i, j \in 1..Len(selected) :
        (selected[i].level >= 1 /\ selected[j].level >= 1
           /\ selected[i].parent_code = selected[j].parent_code) => i = j

\* C3: every component code is entered into processed_parent_code_to_item at
\* most once, its representative position and depth never change afterwards,
\* and its children are aggregated in at most one level pass.
C3_AtMostOneExpansion == [][EntriesKept]_vars /\ []ExpandedOnce

\* a code registered at depth 0 was met again as a child in a later pass and
\* kept its registration
C3_Witness ==
  /\ pc = "returned"
  /\ \E i \in 1..Len(processed_parent_code_to_item) :
       \E k \in 1..Len(selected) :
          /\ processed_parent_code_to_item[i].level = 0
          /\ selected[k].level = 2
          /\ \E n \in 1..Len(selected[k].rows) :
                selected[k].rows[n].child_code
                  = processed_parent_code_to_item[i].code

\* the rows of the table whose position reads N or N.0
IsTopLevelForm(item) ==
  \/ (item # <<>> /\ \A i \in 1..Len(item) : item[i] \in Digits)
  \/ (Len(item) >= 3 /\ item[Len(item)] = "0" /\ item[Len(item) - 1] = "."
        /\ \A i \in 1..(Len(item) - 2) : item[i] \in Digits)

\* the level-1 rows that start with 'N.' and do not end in '.0', for the
\* position N.0
Level1RowsUnder(item) ==
  LET n == Len(item) - 2
      Test(r) ==
        /\ Len(r.item) > n
        /\ \A i \in 1..n : r.item[i] = item[i]
        /\ r.item[n + 1] = "."
        /\ ~(r.item[Len(r.item)] = "0" /\ r.item[Len(r.item) - 1] = ".")
  IN IF 1 \in DOMAIN items_by_level THEN SelectSeq(items_by_level[1], Test)
     ELSE <<>>

\* C7: after the call, positions N and N.0 are both level 0, and for a level-0 parent whose
\* representative position is N.0 the rows selected as its children are
\* exactly the level-1 rows starting with 'N.' and not ending in '.0'; their
\* edges have the code resolved from the N.0 row as parent.
C7_DotZeroParent ==
  pc = "returned" =>
  /\ \A i \in 1..Len(df) :
        IsTopLevelForm(df[i].ITEM) => \E p \in BucketPlaces(i - 1) : p[1] = 0
  /\ \A k \in 1..Len(selected) :
       \A e \in 1..Len(processed_parent_code_to_item) :
          LET parent == processed_parent_code_to_item[e]
          IN (/\ selected[k].level = 1
              /\ parent.code = selected[k].parent_code
              /\ parent.level = 0
              /\ Len(parent.item) >= 3
              /\ parent.item[Len(parent.item)] = "0"
              /\ parent.item[Len(parent.item) - 1] = ".")
             => /\ selected[k].rows = Level1RowsUnder(parent.item)
                /\ \E i \in 1..Len(df) :
                      /\ df[i].ITEM = parent.item
                      /\ convert_olg_code(df[i].DESENHO) = parent.code
                /\ \A n \in 1..Len(selected[k].rows) :
                      \E r \in 1..Len(output_rows) :
                         /\ output_rows[r].MTG = parent.code
                         /\ output_rows[r].COD = selected[k].rows[n].child_code

\* the parent registered from row '1.0' got the row '1.1' and not '2.1'
C7_Witness ==
  /\ pc = "returned"
  /\ Len(df) = 3
  /\ df[1].ITEM = <<"1", ".", "0">>
  /\ df[2].ITEM = <<"1", ".", "1">>
  /\ df[3].ITEM = <<"2", ".", "1">>
  /\ df[1].DESENHO # df[2].DESENHO
  /\ root_assembly_code = ROOT
  /\ Len(output_rows) = 2
  /\ output_rows[2].MTG = convert_olg_code(df[1].DESENHO)
  /\ output_rows[2].COD = convert_olg_code(df[2].DESENHO)

\* the distinct child codes of the rows, in the order of first occurrence
RECURSIVE CodesInOrder(_)
CodesInOrder(rows) ==
  IF rows = <<>> THEN <<>>
  ELSE LET rest == CodesInOrder(SubSeq(rows, 1, Len(rows) - 1))
           c == rows[Len(rows)].child_code
       IN IF \E i \in 1..Len(rest) : rest[i] = c THEN rest ELSE Append(rest, c)

RowsWithCode(rows, c) == LET Test(r) == r.child_code = c IN SelectSeq(rows, Test)

\* the DuplicateRecords C10 expects for the rows of one (parent, child) group
ExpectedDuplicates(rows) ==
  IF Len(rows) > 1
  THEN [i \in 1..Len(rows) |->
          [MOTIVO |-> [text |-> "Montagem duplicada", rank |-> i,
                       of |-> Len(rows), total_qty |-> SumQty(rows)],
           LINHA_XLSX |-> rows[i].original_index + 2,
           ITEM |-> rows[i].item,
           QTD |-> rows[i].quantity,
           DESENHO |-> rows[i].child_code,
           MP20 |-> [text |-> "Duplicata", rank |-> i]]]
  ELSE <<>>

\* the ConsolidationRecords C10 expects for one (parent, child) group
ExpectedConsolidation(parent_code, rows) ==
  IF Len(rows) > 1
  THEN <<[MOTIVO |-> [text |-> "Relacionamento consolidado",
                      total_qty |-> SumQty(rows)],
          LINHA_XLSX |-> "N/A",
          ITEM |-> [Parent |-> parent_code],
          QTD |-> SumQty(rows),
          DESENHO |-> [Child |-> rows[1].child_code],
          MP20 |-> [Consolidado_de |-> Len(rows)]]>>
  ELSE <<>>

\* the records expected for the groups of the passes k..Len(selected), with
\* the groups of one pass taken from its code number n on
RECURSIVE ExpectedRecords(_, _, _)
ExpectedRecords(k, n, dup) ==
  IF k > Len(selected) THEN <<>>
  ELSE LET codes == CodesInOrder(selected[k].rows)
       IN IF n > Len(codes) THEN ExpectedRecords(k + 1, 1, dup)
          ELSE LET rows == RowsWithCode(selected[k].rows, codes[n])
               IN (IF dup THEN ExpectedDuplicates(rows)
                   ELSE ExpectedConsolidation(selected[k].parent_code, rows))
                    \o ExpectedRecords(k, n + 1, dup)

\* C10: a (parent, child) group with N > 1 selected rows gives exactly N
\* DuplicateRecords, one per row in source order with ranks 1/N .. N/N and the
\* summed quantity, and exactly one ConsolidationRecord with the summed
\* quantity and the count N; a group with one row gives neither.
C10_DuplicateRecords ==
  pc = "returned" =>
  /\ duplicate_records = ExpectedRecords(1, 1, TRUE)
  /\ consolidated_relationships = ExpectedRecords(1, 1, FALSE)

\* Scenario B: one edge of quantity 5, two DuplicateRecords and one
\* ConsolidationRecord of two occurrences
C10_Witness ==
  /\ pc = "returned"
  /\ df = ScenarioB
  /\ root_assembly_code = ROOT
  /\ output_rows = <<[EMP |-> "001", MTG |-> ROOT,
                      COD |-> <<"G", "1", "2", "0", "6", "1", "0", "0", "1">>,
                      QTD |-> 5, PER |-> 0]>>
  /\ Len(duplicate_records) = 2
  /\ Len(consolidated_relationships) = 1
  /\ consolidated_relationships[1].MP20.Consolidado_de = 2

\* ------------------------------------------------------------------------
\* Claims about quantities that are missing or not numbers
\* ------------------------------------------------------------------------
\* the value the claim gives a quantity: 0 unless it is a number
ClaimedQty(q) == IF q.kind = "num" THEN q.val ELSE 0

RECURSIVE SumClaimed(_)
SumClaimed(rows) ==
  IF rows = <<>> THEN 0
  ELSE ClaimedQty(Head(rows).quantity) + SumClaimed(Tail(rows))

\* every selected row has its edge, whose quantity is the sum over the rows
\* of its group with a missing or non-numeric quantity counted as 0
EdgesCountOthersAsZero ==
  \A n \in 1..Len(selected) : \A i \in 1..Len(selected[n].rows) :
     LET s == selected[n]
         r == s.rows[i]
         Same(x) == x.child_code = r.child_code
     IN \E j \in 1..Len(output_rows) :
          /\ output_rows[j].MTG = s.parent_code
          /\ output_rows[j].COD = r.child_code
          /\ output_rows[j].QTD = SumClaimed(SelectSeq(s.rows, Same))

\* C11: a valid row whose quantity is missing or non-numeric contributes 0
\* to the aggregated quantity of its edge: the edge is still emitted, the
\* other rows of the group keep their quantities, and the builder raises no
\* error.
C11_AsStated ==
  /\ pc # "raised"
  /\ pc = "returned" => EdgesCountOthersAsZero

\* C11, what the builder guarantees: it raises exactly when a row it selects
\* has a text quantity, and when it returns the missing quantities count 0
C11_MissingCountsZero ==
  /\ pc = "returned" => EdgesCountOthersAsZero
  /\ pc = "raised" =>
        \E i \in 1..Len(df) : df[i].QTD = QStr /\ BucketPlaces(i - 1) # {}

\* ------------------------------------------------------------------------
\* Specification SpecConvert: one conversion requested through any entry
\* point, with any request, any spreadsheet and collaborators that may fail
\* ------------------------------------------------------------------------
AssemblyCodes == {NaN, <<>>, ROOT, <<"G", "1">>, <<"R", "-">>}
InputFiles == {<<"present">>, <<"missing">>}
FileItems == {<<"1">>, <<"1", ".", "1">>}
FileQtys == {QNum(1), QNaN, QStr}
FileDrawings ==
  {<<"O", "L", "G", "1">>, <<"O", "L", "Z", "-", "2">>, <<"O", "L", "G", "1", "^">>}
EntryPoints ==
  {"xlsx_to_parent_child_csv", "XLSXToCSVConverter.convert",
   "MultiTypeConverter.convert"}
ConversionTypes ==
  {"HIERARCHICAL_STRUCTURE", "PARTS_REGISTRATION", "DESCRIPTION_UPDATE",
   "MATERIAL_UPDATE", "OLZ_VERIFICATION", "ALL_CONVERSIONS"}
SaveErrors == {"PermissionError", "OSError"}

\* a table in which the pair (root, G12061001) absorbs two rows and the
\* row at 1.1 lies under the representative position 1
ConsolidatedWithChild ==
  <<[ITEM |-> <<"1">>, QTD |-> QNum(2), DESENHO |-> DocExample, MP20 |-> "M1"],
    [ITEM |-> <<"2">>, QTD |-> QNum(3), DESENHO |-> DocExample, MP20 |-> "M1"],
    [ITEM |-> <<"1", ".", "1">>, QTD |-> QNum(1),
     DESENHO |-> <<"O", "L", "Z", "-", "2">>, MP20 |-> "M1"]>>

\* the sibling converters read the spreadsheet themselves: its rows are
\* left out for them
InitConvert ==
  /\ pc = "entry"
  /\ entry_point \in EntryPoints
  /\ conversion_type \in ConversionTypes
  /\ entry_point # "MultiTypeConverter.convert"
        => conversion_type = "HIERARCHICAL_STRUCTURE"
  /\ request \in [input_file : InputFiles, assembly_code : AssemblyCodes]
  /\ \/ IsTable(file_rows, FileItems, FileQtys, FileDrawings, MaxFileRows)
     \/ file_rows = ConsolidatedWithChild
  /\ request.input_file = <<"missing">> => file_rows = <<>>
  /\ reference_codes = {}
  /\ ShellIdle
  /\ conversion_type # "HIERARCHICAL_STRUCTURE" => file_rows = <<>>
  /\ csv_file = NoFile
  /\ report_file = FALSE
  /\ report_records = <<>>
  /\ result = NoResult
  /\ df = <<>> /\ index = 0 /\ classifier = ClassifierStart /\ stats = NoStats
  /\ CodeIdle /\ LevelIdle /\ BuilderIdle

\* the entry point, up to its call of XLSXToCSVConverter.convert:
\* xlsx_to_parent_child_csv refuses a missing code, MultiTypeConverter.convert
\* validates the request and dispatches on the conversion type
ConvEntry ==
  /\ pc = "entry"
  /\ IF entry_point = "xlsx_to_parent_child_csv"
     THEN IF ~Truthy(request.assembly_code)
          THEN /\ result' = Failure("Codigo da montagem principal e obrigatorio")
               /\ pc' = "done"
          ELSE /\ pc' = "validate"
               /\ UNCHANGED result
     ELSE IF entry_point = "XLSXToCSVConverter.convert"
     THEN /\ pc' = "validate"
          /\ UNCHANGED result
     ELSE IF ~validate_conversion_request(
                 request.input_file,
                 IF conversion_type = "HIERARCHICAL_STRUCTURE"
                 THEN request.assembly_code ELSE <<>>)
     THEN /\ result' = Failure("Erro de validacao")
          /\ pc' = "done"
     ELSE IF conversion_type = "HIERARCHICAL_STRUCTURE"
     THEN /\ pc' = "validate"
          /\ UNCHANGED result
     ELSE IF ~HasConverter(conversion_type)
     THEN /\ result' = Failure("Conversor nao encontrado")
          /\ pc' = "done"
     ELSE /\ pc' = "sibling"
          /\ UNCHANGED result
  /\ UNCHANGED <<codeVars, levelVars, classifierVars, builderVars,
                 requestVars, csv_file, report_file, report_records>>

\* converter.convert(request) of a sibling converter returns its success
ConvSibling ==
  /\ pc = "sibling"
  /\ result' = [success |-> TRUE, message |-> "Arquivo gerado com sucesso",
                output_file |-> <<"sibling.csv">>]
  /\ pc' = "done"
  /\ UNCHANGED <<codeVars, levelVars, classifierVars, builderVars,
                 requestVars, csv_file, report_file, report_records>>

\* a collaborator of the sibling converter raises: its 'except Exception'
\* returns a failure
ConvSiblingFails ==
  /\ pc = "sibling"
  /\ result' = Failure("Erro na conversao")
  /\ pc' = "done"
  /\ UNCHANGED <<codeVars, levelVars, classifierVars, builderVars,
                 requestVars, csv_file, report_file, report_records>>

\* validate_conversion_request, and 'request.assembly_code.strip()', which
\* raises AttributeError for a code that is None
ConvValidate ==
  /\ pc = "validate"
  /\ IF ~validate_conversion_request(request.input_file, request.assembly_code)
     THEN /\ result' = Failure("Erro de validacao")
          /\ pc' = "done"
          /\ UNCHANGED root_assembly_code
     ELSE IF isna(request.assembly_code)
     THEN /\ result' = Returned(entry_point, ExceptClauses("AttributeError"))
          /\ pc' = "done"
          /\ UNCHANGED root_assembly_code
     ELSE /\ root_assembly_code' = strip(request.assembly_code)
          /\ pc' = "read"
          /\ UNCHANGED result
  /\ UNCHANGED <<codeVars, levelVars, classifierVars, current_level, builder,
                 first_call, requestVars, csv_file, report_file,
                 report_records>>

\* pd.read_excel returns the table
ConvRead ==
  /\ pc = "read"
  /\ df' = file_rows
  /\ pc' = "structure"
  /\ UNCHANGED <<index, classifier, stats, codeVars, levelVars, builderVars,
                 convertVars>>

\* pd.read_excel raises
ConvReadFails ==
  /\ pc = "read"
  /\ result' = Failure("Erro ao ler arquivo Excel")
  /\ pc' = "done"
  /\ UNCHANGED <<codeVars, levelVars, classifierVars, builderVars,
                 requestVars, csv_file, report_file, report_records>>

\* validate_dataframe_structure: an empty table is refused
ConvStructure ==
  /\ pc = "structure"
  /\ IF ~validate_dataframe_structure(df)
     THEN /\ result' = Failure("Erro de validacao da estrutura do arquivo")
          /\ pc' = "done"
     ELSE /\ pc' = "process"
          /\ UNCHANGED result
  /\ UNCHANGED <<codeVars, levelVars, classifierVars, builderVars,
                 requestVars, csv_file, report_file, report_records>>

\* process_excel_data, then build_parent_child_relationships, which returns
\* or raises TypeError
ConvProcess ==
  /\ pc = "process"
  /\ index' = Len(df)
  /\ classifier' = ClassifyFrom(ClassifierStart, df, 1)
  /\ stats' = process_excel_data(df).stats
  /\ IF BuildRaises(process_excel_data(df).items_by_level, root_assembly_code)
     THEN /\ result' = Returned(entry_point, ExceptClauses("TypeError"))
          /\ pc' = "done"
          /\ UNCHANGED builder
     ELSE /\ builder' = build_parent_child_relationships(
                          process_excel_data(df).items_by_level,
                          root_assembly_code)
          /\ pc' = "save"
          /\ UNCHANGED result
  /\ UNCHANGED <<df, root_assembly_code, current_level, first_call, codeVars,
                 levelVars, requestVars, csv_file, report_file,
                 report_records>>

\* a plausible slip: the write of the edge CSV is put off until the
\* verification has passed
ConvSave_after_verification ==
  /\ pc = "save"
  /\ pc' = "report"
  /\ UNCHANGED <<codeVars, levelVars, classifierVars, builderVars,
                 convertVars>>

\* _prepare_output_file and save_csv_file write the edge CSV
ConvSave ==
  /\ pc = "save"
  /\ csv_file' = [written |-> TRUE, rows |-> output_rows]
  /\ pc' = "report"
  /\ UNCHANGED <<codeVars, levelVars, classifierVars, builderVars,
                 requestVars, report_file, report_records, result>>

\* save_csv_file raises (the file cannot be opened or written)
ConvSaveFails ==
  /\ pc = "save"
  /\ \E exception \in SaveErrors :
        result' = Returned(entry_point, ExceptClauses(exception))
  /\ pc' = "done"
  /\ UNCHANGED <<codeVars, levelVars, classifierVars, builderVars,
                 requestVars, csv_file, report_file, report_records>>

\* detect_z_in_generated_csv, which catches its own exceptions, and
\* generate_exclusions_report, called with no consolidated children: the
\* report is written or its write fails
ConvReport ==
  /\ pc = "report"
  /\ \E write_ok \in BOOLEAN :
        LET report ==
              generate_exclusions_report(
                comprehensive_records(exclusion_records, duplicate_records,
                                      consolidated_relationships, <<>>,
                                      items_by_level, Len(df), output_rows),
                write_ok)
        IN /\ report_file' = report.written
           /\ report_records' = report.records
           /\ IF report.raised
              THEN /\ result' = Returned(entry_point, ExceptClauses("OSError"))
                   /\ pc' = "done"
              ELSE /\ pc' = "verify"
                   /\ UNCHANGED result
  /\ UNCHANGED <<codeVars, levelVars, classifierVars, builderVars,
                 requestVars, csv_file>>

\* the statistics are updated and the two counts are compared
ConvVerify ==
  /\ pc = "verify"
  /\ stats' = [stats EXCEPT
                 !.duplicate_rows = Len(duplicate_records),
                 !.consolidated_rows = Len(consolidated_relationships),
                 !.generated_relationships = Len(output_rows)]
  /\ result' = VerificationResult(builder, stats, <<"ESTRUTURA.csv">>)
  /\ pc' = "done"
  /\ UNCHANGED <<df, index, classifier, codeVars, levelVars, builderVars,
                 requestVars, csv_file, report_file, report_records>>

NextConvert ==
  \/ ConvEntry \/ ConvSibling \/ ConvSiblingFails
  \/ ConvValidate \/ ConvRead \/ ConvReadFails \/ ConvStructure \/ ConvProcess
  \/ ConvSave \/ ConvSaveFails \/ ConvReport \/ ConvVerify

SpecConvert == InitConvert /\ [][NextConvert]_vars

\* ------------------------------------------------------------------------
\* Claims about XLSXToCSVConverter.convert
\* ------------------------------------------------------------------------
CountsDiffer == Len(output_rows) # Cardinality(DOMAIN edge_to_quantity)

CarriesBothCounts ==
  /\ {"expected_csv_rows", "generated_csv_rows"} \subseteq DOMAIN result
  /\ result.expected_csv_rows = Cardinality(DOMAIN edge_to_quantity)
  /\ result.generated_csv_rows = Len(output_rows)

\* C5 as stated: whenever the number of distinct (parent, child) pairs
\* differs from the number of emitted rows, convert returns success = False
\* with both counts; success is never returned with the counts different.
C5_AsStated ==
  (pc = "done" /\ CountsDiffer) => (~result.success /\ CarriesBothCounts)

\* C5, what convert guarantees: with the counts different it never returns
\* success, and the failure carries both counts whenever save_csv_file has
\* returned; when save_csv_file raises, the failure carries the message of
\* the except clause for that error.
C5_VerifierFailure ==
  (pc = "done" /\ CountsDiffer) =>
     /\ ~result.success
     /\ csv_file.written => CarriesBothCounts
     /\ ~csv_file.written
          => \E exception \in SaveErrors : result = ExceptClauses(exception)

\* the root code is a component code, the edge CSV holds two rows for one
\* pair and the result is the verification failure with the counts 1 and 2
C5_Witness ==
  /\ pc = "done"
  /\ CountsDiffer
  /\ csv_file.written /\ Len(csv_file.rows) = 2
  /\ ~result.success
  /\ CarriesBothCounts
  /\ result.expected_csv_rows = 1 /\ result.generated_csv_rows = 2

\* C12 as stated: a hierarchical conversion requested with an absent or
\* empty root assembly code returns a failure and emits no edge, through
\* every entry point.
C12_AsStated ==
  (pc = "done" /\ conversion_type = "HIERARCHICAL_STRUCTURE"
     /\ ~Truthy(request.assembly_code))
    => (~result.success /\ ~csv_file.written /\ output_rows = <<>>)

\* C12, what the entry points guarantee: an absent code (None) fails through
\* every entry point, an empty code fails through xlsx_to_parent_child_csv
C12_AbsentCode ==
  (pc = "done" /\ conversion_type = "HIERARCHICAL_STRUCTURE"
     /\ (isna(request.assembly_code)
           \/ (request.assembly_code = <<>>
                 /\ entry_point = "xlsx_to_parent_child_csv")))
    => (~result.success /\ ~csv_file.written /\ output_rows = <<>>)

\* C13: failure is by value: MultiTypeConverter.convert and
\* XLSXToCSVConverter.convert always return a ConversionResult with a
\* success flag and a message, whatever the request, the conversion type and
\* the collaborator that failed; the result is a success only when the
\* input file is there and, for a hierarchical conversion, the edge CSV was
\* written.
C13_FailureByValue ==
  (pc = "done" /\ entry_point # "xlsx_to_parent_child_csv") =>
     /\ {"success", "message"} \subseteq DOMAIN result
     /\ result # NoResult
     /\ result.success => request.input_file = <<"present">>
     /\ (result.success /\ conversion_type = "HIERARCHICAL_STRUCTURE")
          => csv_file.written

\* the root code None passes the validation and 'None.strip()' raises: the
\* caller of XLSXToCSVConverter.convert gets the failure of the last except
\* clause
C13_Witness ==
  /\ pc = "done"
  /\ entry_point = "XLSXToCSVConverter.convert"
  /\ isna(request.assembly_code)
  /\ request.input_file = <<"present">>
  /\ result = Failure("Erro inesperado durante a exportacao")

\* C18: a conversion whose source table has zero data rows returns a
\* failure: the Row Classifier and the Relationship Builder are not run and
\* no edge CSV and no audit report is written.
C18_EmptyTable ==
  /\ pc \in {"process", "save", "report", "verify"} => Len(df) > 0
  /\ (pc = "done" /\ conversion_type = "HIERARCHICAL_STRUCTURE"
        /\ file_rows = <<>>)
       => /\ ~result.success
          /\ index = 0 /\ classifier = ClassifierStart
          /\ builder = BuilderStart
          /\ ~csv_file.written
          /\ ~report_file /\ report_records = <<>>

\* a present spreadsheet without data rows, read through a valid request
C18_Witness ==
  /\ pc = "done"
  /\ request.input_file = <<"present">>
  /\ request.assembly_code = ROOT
  /\ df = <<>> /\ file_rows = <<>>
  /\ result = Failure("Erro de validacao da estrutura do arquivo")
  /\ ~csv_file.written /\ ~report_file

\* C19: whenever the edge CSV was written and the verifier passes, convert
\* returns success with the same output file and statistics whether or not
\* the audit report could be written.
C19_ReportNonFatal ==
  (pc = "done" /\ csv_file.written /\ ~CountsDiffer) =>
     /\ result.success
     /\ result.output_file = <<"ESTRUTURA.csv">>
     /\ result.stats = [ProcessingStats(df, classifier) EXCEPT
                          !.duplicate_rows = Len(duplicate_records),
                          !.consolidated_rows = Len(consolidated_relationships),
                          !.generated_relationships = Len(output_rows)]

\* the write of the audit report failed and the conversion is a success
C19_Witness ==
  /\ pc = "done"
  /\ csv_file.written /\ Len(csv_file.rows) > 0
  /\ ~report_file
  /\ ~CountsDiffer
  /\ result.success

\* the rows of the pass s whose code is c
RowsOfCode(s, c) == LET Same(x) == x.child_code = c IN SelectSeq(s.rows, Same)

\* the valid rows, of any level
ValidRows ==
  UNION {{items_by_level[l][i] : i \in 1..Len(items_by_level[l])} :
           l \in DOMAIN items_by_level}

\* the report holds a 'child of consolidated assembly' record for the row r
\* under the consolidated code c
HasChildRecord(r, c) ==
  \E k \in 1..Len(report_records) :
     /\ report_records[k].kind = "child"
     /\ report_records[k].record.LINHA_XLSX = r.original_index + 2
     /\ report_records[k].record.MP20.Parent = c

\* C20: for every (parent, child) pair that absorbed more than one
\* occurrence, the audit report written by a hierarchical conversion holds a
\* 'child of consolidated assembly' record for each valid row whose position
\* lies under the representative position of the consolidated child.
C20_AsStated ==
  (pc = "done" /\ report_file) =>
     \A n \in 1..Len(selected) : \A i \in 1..Len(selected[n].rows) :
        LET c == selected[n].rows[i].child_code
            group == RowsOfCode(selected[n], c)
        IN Len(group) > 1 =>
             \A r \in ValidRows :
                startswith(r.item, group[1].item \o <<".">>)
                  => HasChildRecord(r, c)

\* ------------------------------------------------------------------------
\* Order of the output of build_parent_child_relationships (specification
\* Spec)
\* ------------------------------------------------------------------------
\* the (parent, child) pairs of a sequence of output rows
PairsOf(rows) == [i \in 1..Len(rows) |-> <<rows[i].MTG, rows[i].COD>>]

\* the distinct codes of a sequence of rows, in the order of their first row
RECURSIVE FirstCodes(_, _)
FirstCodes(seen, rows) ==
  IF rows = <<>> THEN seen
  ELSE FirstCodes(IF \E i \in 1..Len(seen) : seen[i] = Head(rows).child_code
                  THEN seen ELSE Append(seen, Head(rows).child_code),
                  Tail(rows))

\* the pairs of the passes, pass after pass, each pass in the order in which
\* its child codes are first selected
RECURSIVE EdgesInPassOrder(_)
EdgesInPassOrder(passes) ==
  IF passes = <<>> THEN <<>>
  ELSE LET codes == FirstCodes(<<>>, Head(passes).rows)
       IN [i \in 1..Len(codes) |-> <<Head(passes).parent_code, codes[i]>>]
            \o EdgesInPassOrder(Tail(passes))

\* the parents visited in the pass for level k, in the order of their visit
PassParents(k) ==
  LET AtLevel(s) == s.level = k
      passes == SelectSeq(selected, AtLevel)
  IN [i \in 1..Len(passes) |-> passes[i].parent_code]

\* the codes registered at depth k, in the order of their registration
RegisteredAt(k) ==
  LET AtLevel(e) == e.level = k
      entries == SelectSeq(processed_parent_code_to_item, AtLevel)
  IN [i \in 1..Len(entries) |-> entries[i].code]

\* the rows are in the order of the source
InSourceOrder(rows) ==
  \A i, j \in 1..Len(rows) :
     i < j => rows[i].original_index < rows[j].original_index

\* C14: the output order is breadth-first: output_rows is the sequence of
\* the edges of the passes, the passes by increasing level, the level-0 edges
\* in the order in which their codes first occur in the source, the edges of
\* a deeper pass grouped by parent in the order in which the parents were
\* registered, and within one parent in the order in which the child codes
\* are first selected.
C14_BreadthFirst ==
  pc = "returned" =>
     /\ PairsOf(output_rows) = EdgesInPassOrder(selected)
     /\ \A n, m \in 1..Len(selected) :
           n < m => selected[n].level <= selected[m].level
     /\ \A n \in 1..Len(selected) : InSourceOrder(selected[n].rows)
     /\ 0 \in DOMAIN items_by_level
          => PassParents(0) = <<root_assembly_code>>
               /\ selected[1].rows = items_by_level[0]
     /\ \A k \in 1..current_level :
           PassParents(k) # <<>> => PassParents(k) = RegisteredAt(k - 1)

\* two parents registered at level 0 are both expanded at level 1, after
\* the two edges of level 0
C14_Witness ==
  /\ pc = "returned"
  /\ Len(RegisteredAt(0)) = 2
  /\ Len(PassParents(1)) = 2
  /\ \A n \in 1..Len(selected) : selected[n].rows # <<>>
  /\ Len(output_rows) = 4

\* the rows of level k selected as a child in the pass for level k
SelectedAt(k) ==
  UNION {{selected[n].rows[i] : i \in 1..Len(selected[n].rows)} :
           n \in {m \in 1..Len(selected) : selected[m].level = k}}

\* C15 as stated: first occurrence in source order wins: the representative
\* position of a code registered at depth k is the position of the row with
\* the smallest source index among the level-k rows with that code selected
\* as a child in that pass, whatever the order in which the parents of the
\* pass are visited.
C15_AsStated ==
  pc = "returned" =>
     \A e \in 1..Len(processed_parent_code_to_item) :
        LET entry == processed_parent_code_to_item[e]
            rows == {r \in SelectedAt(entry.level) : r.child_code = entry.code}
        IN \E r \in rows :
              /\ \A other \in rows : r.original_index <= other.original_index
              /\ entry.item = r.item

\* C15, what the builder guarantees: the representative position of a code
\* is the position of the first row with that code selected by the first
\* visited parent that selects the code
C15_FirstSelectingParent ==
  pc = "returned" =>
     \A e \in 1..Len(processed_parent_code_to_item) :
        LET entry == processed_parent_code_to_item[e]
            Selects(s) == /\ s.level = entry.level
                          /\ \E i \in 1..Len(s.rows) :
                                s.rows[i].child_code = entry.code
            passes == SelectSeq(selected, Selects)
            Same(r) == r.child_code = entry.code
        IN /\ passes # <<>>
           /\ entry.item = SelectSeq(passes[1].rows, Same)[1].item

\* ------------------------------------------------------------------------
\* Specification SpecTerminates: one call of the builder whose steps are
\* always taken: the interpreter runs the loop until the call ends
\* ------------------------------------------------------------------------
MaxLoopRows == 2
LoopQtys == {QNum(1)}

\* a table with a row whose quantity is text
TextQuantity ==
  <<[ITEM |-> <<"1">>, QTD |-> QStr, DESENHO |-> <<"O", "L", "G", "1">>,
     MP20 |-> "M1"]>>

\* a table with the levels 0, 1 and 2 under one another
ThreeLevels ==
  <<[ITEM |-> <<"1">>, QTD |-> QNum(1), DESENHO |-> <<"O", "L", "G", "1">>,
     MP20 |-> "M1"],
    [ITEM |-> <<"1", ".", "1">>, QTD |-> QNum(1),
     DESENHO |-> <<"O", "L", "Z", "-", "2">>, MP20 |-> "M1"],
    [ITEM |-> <<"1", ".", "1", ".", "1">>, QTD |-> QNum(1),
     DESENHO |-> <<"O", "L", "G", "3">>, MP20 |-> "M1"]>>

InitTerminates ==
  /\ pc = "level0"
  /\ \/ IsTable(df, BuildItems, LoopQtys, BuildDrawings, MaxLoopRows)
     \/ df \in {TextQuantity, ThreeLevels, LaterParentEarlierRow}
  /\ index = Len(df)
  /\ classifier = ClassifyFrom(ClassifierStart, df, 1)
  /\ stats = ProcessingStats(df, classifier)
  /\ root_assembly_code = ROOT
  /\ current_level = 0
  /\ builder = BuilderStart
  /\ first_call = <<>>
  /\ CodeIdle /\ LevelIdle /\ ConvertIdle

SpecTerminates == InitTerminates /\ [][Next]_vars /\ WF_vars(Next)

\* every step of the loop increases the level counter by one or ends the
\* call
CounterIncreases ==
  current_level' > current_level
    \/ (current_level' = current_level /\ pc' \in {"returned", "raised"})

\* the call returned at the first level k >= 1 that has no rows or for which
\* no code was registered at depth k - 1
ExitsAtFirstLevel ==
  pc = "returned" =>
     /\ current_level >= 1
     /\ current_level \notin DOMAIN items_by_level
          \/ RegisteredAt(current_level - 1) = <<>>
     /\ \A k \in 1..(current_level - 1) :
           k \in DOMAIN items_by_level /\ RegisteredAt(k - 1) # <<>>

\* C16: build_parent_child_relationships terminates for every finite leveled
\* index: the level counter strictly increases, and the loop exits at the
\* first level k >= 1 that has no rows or for which no code was registered
\* at depth k - 1.
C16_Terminates ==
  /\ [][CounterIncreases]_vars
  /\ []ExitsAtFirstLevel
  /\ <>(pc \in {"returned", "raised"})

\* the call returned after the passes for the levels 1 and 2
C16_Witness ==
  /\ pc = "returned"
  /\ current_level = 3
  /\ PassParents(1) # <<>> /\ PassParents(2) # <<>>

\* ------------------------------------------------------------------------
\* Specification SpecTwice: two calls of build_parent_child_relationships,
\* one after the other, on the same CSVGenerator, the same leveled index and
\* the same root code
\* ------------------------------------------------------------------------
InitTwice ==
  /\ pc = "level0"
  /\ \/ IsTable(df, BuildItems, BuildQtys, BuildDrawings, MaxLoopRows)
     \/ df \in {ScenarioA, ScenarioB, ThreeLevels, LaterParentEarlierRow}
  /\ index = Len(df)
  /\ classifier = ClassifyFrom(ClassifierStart, df, 1)
  /\ stats = ProcessingStats(df, classifier)
  /\ root_assembly_code \in Roots
  /\ current_level = 0
  /\ builder = BuilderStart
  /\ first_call = <<>>
  /\ CodeIdle /\ LevelIdle /\ ConvertIdle

\* the caller keeps what the first call returned and calls again
BuildAgain ==
  /\ pc = "returned"
  /\ first_call = <<>>
  /\ first_call' = <<builder>>
  /\ builder' = FreshLocals(builder)
  /\ current_level' = 0
  /\ pc' = "level0"
  /\ UNCHANGED <<root_assembly_code, codeVars, levelVars, classifierVars,
                 convertVars>>

NextTwice == BuildLevel0 \/ BuildLevelPass \/ BuildReturn \/ BuildAgain

SpecTwice == InitTwice /\ [][NextTwice]_vars

PassesSelecting(r) ==
  {n \in 1..Len(selected) :
     \E i \in 1..Len(selected[n].rows) : selected[n].rows[i] = r}

\* C22 as stated: no valid row disappears silently: every row of a level
\* bucket has its quantity added to some emitted edge or is reported in an
\* ExclusionRecord.
C22_AsStated ==
  pc = "returned" =>
     \A r \in ValidRows :
        \/ PassesSelecting(r) # {}
        \/ \E k \in 1..Len(exclusion_records) :
              exclusion_records[k].LINHA_XLSX = r.original_index + 2

\* C23 as stated: no double counting: every valid row is selected as a
\* child by at most one resolved parent in at most one level pass.
C23_AsStated ==
  pc = "returned" => \A r \in ValidRows : Cardinality(PassesSelecting(r)) <= 1

\* C23, what the builder guarantees: a row is selected in the pass of its
\* own level only, at most once for each parent of that pass
C23_OncePerParent ==
  pc = "returned" =>
     \A r \in ValidRows : \A n, m \in PassesSelecting(r) :
        /\ r \in {items_by_level[selected[n].level][i] :
                    i \in 1..Len(items_by_level[selected[n].level])}
        /\ selected[n].parent_code = selected[m].parent_code => n = m

\* the position under which the code was registered
RegisteredItem(code) ==
  LET Is(e) == e.code = code
  IN SelectSeq(processed_parent_code_to_item, Is)[1].item

\* C24 as stated: for every resolved parent registered at depth k >= 1 the
\* rows selected as its children are exactly the rows of the next level
\* whose position starts with the parent's position followed by '.'.
C24_AsStated ==
  pc = "returned" =>
     \A n \in 1..Len(selected) :
        selected[n].level >= 2 =>
           LET parent_item == RegisteredItem(selected[n].parent_code)
               Under(r) == startswith(r.item, parent_item \o <<".">>)
           IN selected[n].rows
                = SelectSeq(items_by_level[selected[n].level], Under)

\* the codes reached from the codes of the set by emitted edges
RECURSIVE ReachedFrom(_)
ReachedFrom(codes) ==
  LET next == codes \cup {output_rows[i].COD :
                            i \in {j \in 1..Len(output_rows) :
                                     output_rows[j].MTG \in codes}}
  IN IF next = codes THEN codes ELSE ReachedFrom(next)

\* C25 as stated: the emitted edge set is acyclic: no row of output_rows
\* has MTG = COD, and no sequence of emitted edges leads from a code back
\* to itself.
C25_AsStated ==
  pc = "returned" =>
     \A i \in 1..Len(output_rows) :
        /\ output_rows[i].MTG # output_rows[i].COD
        /\ output_rows[i].MTG \notin ReachedFrom({output_rows[i].COD})

\* C27: every emitted edge hangs from the root: at every point of the run
\* the MTG of each row of output_rows is the root code or a code that is
\* the COD of an earlier row.
C27_HangsFromRoot ==
  \A i \in 1..Len(output_rows) :
     \/ output_rows[i].MTG = root_assembly_code
     \/ \E j \in 1..(i - 1) : output_rows[j].COD = output_rows[i].MTG

\* edges of the levels 0, 1 and 2 were emitted
C27_Witness ==
  /\ pc = "returned"
  /\ root_assembly_code = ROOT
  /\ Len(output_rows) = 3
  /\ output_rows[1].MTG = ROOT
  /\ output_rows[3].MTG = output_rows[2].COD
  /\ output_rows[2].MTG = output_rows[1].COD

\* ------------------------------------------------------------------------
\* The place of the verification in XLSXToCSVConverter.convert
\* (specification SpecConvert)
\* ------------------------------------------------------------------------
\* the result is the failure of the verification
IsVerifierFailure(r) == "expected_csv_rows" \in DOMAIN r

\* the step returns the failure of the verification
VerifierFails == ~IsVerifierFailure(result) /\ IsVerifierFailure(result')

\* C26: in convert the comparison of the verifier is evaluated only after
\* save_csv_file and generate_exclusions_report have run: in every run in
\* which the verifier returns its failure, the edge CSV of that run has
\* already been written to the sink.
C26_VerifierAfterSave ==
  /\ [][VerifierFails =>
          /\ pc = "verify"
          /\ csv_file.written /\ csv_file.rows = output_rows
          /\ UNCHANGED <<csv_file, report_file, report_records>>]_vars
  /\ [](pc = "verify" => csv_file.written)
  /\ []((pc = "done" /\ IsVerifierFailure(result))
          => /\ csv_file.written
             /\ Len(csv_file.rows) = result.generated_csv_rows)

\* the verification failed with the edge CSV and the report both written
C26_Witness ==
  /\ pc = "done"
  /\ IsVerifierFailure(result)
  /\ ~result.success
  /\ csv_file.written /\ csv_file.rows = output_rows
  /\ report_file /\ report_records # <<>>

\* ------------------------------------------------------------------------
\* The sibling converters: parts registration, description update and
\* material update. Of a generated record the code (and, for the material
\* update, the material code) is kept, with the spreadsheet line of the row
\* it was made from; the cells of the description and weight columns are
\* left out.
\* ------------------------------------------------------------------------
MaxSiblingRows == 2

\* the characters in the order of their code points
CodePoints ==
  <<"0", "1", "2", "3", "4", "5", "6", "7", "8", "9", "A", "B", "G", "L", "O",
    "R", "T", "Z", "a", "n">>
ord(c) == CHOOSE i \in 1..Len(CodePoints) : CodePoints[i] = c

\* a < b for two Python strings
RECURSIVE StrLess(_, _)
StrLess(a, b) ==
  IF b = <<>> THEN FALSE
  ELSE IF a = <<>> THEN TRUE
  ELSE IF Head(a) = Head(b) THEN StrLess(Tail(a), Tail(b))
  ELSE ord(Head(a)) < ord(Head(b))

\* list.sort(key=...): a stable sort by the code of the record
RECURSIVE SortByCode(_)
SortByCode(records) ==
  IF records = <<>> THEN <<>>
  ELSE LET sorted == SortByCode(SubSeq(records, 1, Len(records) - 1))
           last == records[Len(records)]
           NotAfter(r) == ~StrLess(last.Codigo, r.Codigo)
           After(r) == StrLess(last.Codigo, r.Codigo)
       IN SelectSeq(sorted, NotAfter) \o <<last>> \o SelectSeq(sorted, After)

\* str.upper() on the characters of the model
upper(s) ==
  [i \in 1..Len(s) |-> IF s[i] = "a" THEN "A" ELSE IF s[i] = "n" THEN "N"
                       ELSE s[i]]

\* the part of s before the first ' - ', or s when it has none
BeforeSeparator(s) ==
  LET places == {i \in 1..(Len(s) - 2) :
                   SubSeq(s, i, i + 2) = <<" ", "-", " ">>}
  IN IF places = {} THEN s
     ELSE SubSeq(s, 1, (CHOOSE i \in places : \A j \in places : i <= j) - 1)

\* _format_material_code: six digits, or 'Z' and five or six digits, or ''
format_material_code(raw) ==
  LET s == strip(BeforeSeparator(upper(strip(raw))))
      IsDigit(c) == c \in Digits
      digits == SelectSeq(s, IsDigit)
      Last(n) == SubSeq(digits, Len(digits) - n + 1, Len(digits))
  IN IF s = <<>> THEN <<>>
     ELSE IF Head(s) = "Z"
     THEN IF Len(digits) >= 6 THEN <<"Z">> \o Last(6)
          ELSE IF Len(digits) >= 5 THEN <<"Z">> \o Last(5)
          ELSE <<>>
     ELSE IF Len(digits) >= 6 THEN Last(6)
     ELSE <<>>

\* one iteration of 'for index, row in df.iterrows()' of
\* _generate_registration_data, _generate_description_data and
\* _generate_material_data; g holds the records and processed_codes
GenerateRow(type, g, row, i) ==
  LET code == convert_olg_code(row.DESENHO)
      material_code ==
        format_material_code(IF ~isna(row.MP20) THEN str(row.MP20) ELSE <<>>)
      record == [Codigo |-> code, MAP |-> material_code, LINHA_XLSX |-> i + 2]
      seen == [g EXCEPT !.processed_codes = @ \cup {code}]
  IN IF ~isna(row.DESENHO) /\ HasCaret(row.DESENHO) THEN g
     ELSE IF code = None THEN g
     ELSE IF type = "MATERIAL_UPDATE" /\ Head(code) = "Z" THEN g
     ELSE IF code \in g.processed_codes THEN g
     ELSE IF type = "PARTS_REGISTRATION" /\ Head(code) = "Z" THEN seen
     ELSE IF type = "MATERIAL_UPDATE" /\ material_code = <<>> THEN seen
     ELSE [seen EXCEPT !.records = Append(@, record)]

RECURSIVE GenerateFrom(_, _, _, _)
GenerateFrom(type, g, df_, i) ==
  IF i > Len(df_) THEN g
  ELSE GenerateFrom(type, GenerateRow(type, g, df_[i], i - 1), df_, i + 1)

\* the records of the generator of the conversion type for the table
generate_data(type, df_) ==
  GenerateFrom(type, [records |-> <<>>, processed_codes |-> {}], df_, 1).records

\* ------------------------------------------------------------------------
\* Specification SpecSibling: one call of convert of a sibling converter on
\* any table
\* ------------------------------------------------------------------------
SiblingTypes == {"PARTS_REGISTRATION", "DESCRIPTION_UPDATE", "MATERIAL_UPDATE"}
SiblingItems == {<<"1">>, <<"a">>}
SiblingDrawings ==
  {<<"O", "L", "G", "1">>, <<"O", "L", "Z", "-", "2">>,
   <<"O", "L", "G", "1", "^">>, NaN}
MaterialCells == {<<"1", "2", "3", "4", "5", "6">>, <<"Z", "1">>, NaN}

InitSibling ==
  /\ pc = "read_excel"
  /\ conversion_type \in SiblingTypes
  /\ entry_point = "MultiTypeConverter.convert"
  /\ request = [input_file |-> <<"present">>, assembly_code |-> <<>>]
  /\ \E k \in 0..MaxSiblingRows :
        file_rows \in [1..k -> [ITEM : SiblingItems, QTD : {QNum(1)},
                                DESENHO : SiblingDrawings,
                                MP20 : MaterialCells]]
  /\ reference_codes = {}
  /\ ShellIdle
  /\ df = <<>> /\ index = 0 /\ classifier = ClassifierStart /\ stats = NoStats
  /\ csv_file = NoFile
  /\ report_file = FALSE
  /\ report_records = <<>>
  /\ result = NoResult
  /\ CodeIdle /\ LevelIdle /\ BuilderIdle

\* pd.read_excel returns the table
SiblingRead ==
  /\ pc = "read_excel"
  /\ df' = file_rows
  /\ pc' = "process_excel_data"
  /\ UNCHANGED <<index, classifier, stats, codeVars, levelVars, builderVars,
                 convertVars>>

\* pd.read_excel raises: 'except Exception' returns the failure
SiblingReadFails ==
  /\ pc = "read_excel"
  /\ result' = Failure("Erro na conversao")
  /\ pc' = "done"
  /\ UNCHANGED <<codeVars, levelVars, classifierVars, builderVars,
                 requestVars, csv_file, report_file, report_records>>

\* self.process_excel_data(df)
SiblingProcess ==
  /\ pc = "process_excel_data"
  /\ index' = Len(df)
  /\ classifier' = ClassifyFrom(ClassifierStart, df, 1)
  /\ stats' = process_excel_data(df).stats
  /\ pc' = "generate"
  /\ UNCHANGED <<df, codeVars, levelVars, builderVars, convertVars>>

\* the records are generated, sorted by code and saved, and the success is
\* returned
SiblingGenerate ==
  /\ pc = "generate"
  /\ csv_file' = [written |-> TRUE,
                  rows |-> SortByCode(generate_data(conversion_type, df))]
  /\ result' = [success |-> TRUE, message |-> "Arquivo gerado com sucesso",
                output_file |-> <<"sibling.csv">>]
  /\ pc' = "done"
  /\ UNCHANGED <<codeVars, levelVars, classifierVars, builderVars,
                 requestVars, report_file, report_records>>

NextSibling ==
  SiblingRead \/ SiblingReadFails \/ SiblingProcess \/ SiblingGenerate

SpecSibling == InitSibling /\ [][NextSibling]_vars

\* the rule by which process_excel_data excluded the row of the record
ExcludedBy(record) ==
  {exclusion_records[k].MOTIVO :
     k \in {j \in 1..Len(exclusion_records) :
              exclusion_records[j].LINHA_XLSX = record.LINHA_XLSX}}

\* C21 as stated: a source row that process_excel_data excludes (caret
\* marker, no valid code, unparseable level) never gives rise to an output
\* record of the parts-registration, description-update or material-update
\* converter.
C21_AsStated ==
  pc = "done" =>
     \A k \in 1..Len(csv_file.rows) : ExcludedBy(csv_file.rows[k]) = {}

\* C21, what the sibling converters guarantee: no record is made from a row
\* with the caret marker or without a valid code; a row excluded for its
\* unparseable level gives a record
C21_CaretAndCodeRules ==
  pc = "done" =>
     \A k \in 1..Len(csv_file.rows) :
        ExcludedBy(csv_file.rows[k]) \subseteq {InvalidLevelReason}

\* ------------------------------------------------------------------------
\* OLZVerificationConverter
\* ------------------------------------------------------------------------
\* one iteration of the loop of _extract_unique_olz_codes: the code is added
\* to processed_codes before the test of its first letter, and the test adds
\* it again
ExtractRow(processed_codes, row) ==
  LET code == convert_olg_code(row.DESENHO)
  IN IF ~isna(row.DESENHO) /\ HasCaret(row.DESENHO) THEN processed_codes
     ELSE IF code = None THEN processed_codes
     ELSE IF code \in processed_codes THEN processed_codes
     ELSE IF Head(code) = "Z" THEN (processed_codes \cup {code}) \cup {code}
     ELSE processed_codes \cup {code}

RECURSIVE ExtractFrom(_, _, _)
ExtractFrom(processed_codes, df_, i) ==
  IF i > Len(df_) THEN processed_codes
  ELSE ExtractFrom(ExtractRow(processed_codes, df_[i]), df_, i + 1)

extract_unique_olz_codes(df_) == ExtractFrom({}, df_, 1)

\* sorted(list(codes)): the codes in ascending order
RECURSIVE sorted(_)
sorted(codes) ==
  IF codes = {} THEN <<>>
  ELSE LET least == CHOOSE c \in codes :
                      \A d \in codes \ {c} : StrLess(c, d)
       IN <<least>> \o sorted(codes \ {least})

\* one iteration of the loop of _build_missing_olz_data; g holds missing_data
\* and processed_codes (the description column is left out)
BuildMissingRow(g, row, missing_codes) ==
  LET code == convert_olg_code(row.DESENHO)
      missing_record == [Codigo |-> code,
                         Desenho_Original |-> str(row.DESENHO),
                         Status |-> "NAO CADASTRADO"]
  IN IF ~isna(row.DESENHO) /\ HasCaret(row.DESENHO) THEN g
     ELSE IF code = None \/ Head(code) # "Z" THEN g
     ELSE IF (\A k \in 1..Len(missing_codes) : missing_codes[k] # code)
              \/ code \in g.processed_codes THEN g
     ELSE [missing_data |-> Append(g.missing_data, missing_record),
           processed_codes |-> g.processed_codes \cup {code}]

RECURSIVE BuildMissingFrom(_, _, _, _)
BuildMissingFrom(g, df_, missing_codes, i) ==
  IF i > Len(df_) THEN g
  ELSE BuildMissingFrom(BuildMissingRow(g, df_[i], missing_codes), df_,
                        missing_codes, i + 1)

build_missing_olz_data(df_, missing_codes) ==
  BuildMissingFrom([missing_data |-> <<>>, processed_codes |-> {}], df_,
                   missing_codes, 1).missing_data

\* ------------------------------------------------------------------------
\* Specification SpecOlz: one call of OLZVerificationConverter.convert on any
\* table, against any reference sheet
\* ------------------------------------------------------------------------
OlzDrawings ==
  {<<"O", "L", "G", "1">>, <<"O", "L", "Z", "-", "2">>,
   <<"O", "L", "Z", "-", "3">>, <<"O", "L", "G", "1", "^">>, NaN}
\* the codes a reference sheet may hold
ReferenceCodes == {<<"G", "1">>, <<"Z", "2">>, <<"Z", "3">>}

InitOlz ==
  /\ pc = "read_excel"
  /\ conversion_type = "OLZ_VERIFICATION"
  /\ entry_point = "MultiTypeConverter.convert"
  /\ request = [input_file |-> <<"present">>, assembly_code |-> <<>>]
  /\ \E k \in 0..MaxSiblingRows :
        file_rows \in [1..k -> [ITEM : {<<"1">>}, QTD : {QNum(1)},
                                DESENHO : OlzDrawings, MP20 : {NaN}]]
  /\ reference_codes \in SUBSET ReferenceCodes
  /\ ShellIdle
  /\ df = <<>> /\ index = 0 /\ classifier = ClassifierStart /\ stats = NoStats
  /\ csv_file = NoFile
  /\ report_file = FALSE
  /\ report_records = <<>>
  /\ result = NoResult
  /\ CodeIdle /\ LevelIdle /\ BuilderIdle

\* steps 1 to 4 of convert: the codes of the table, the reference, the
\* missing codes, the file of the missing parts and the result
OlzVerify ==
  /\ pc = "generate"
  /\ LET input_olz_codes == extract_unique_olz_codes(df)
         missing_codes == sorted(input_olz_codes \ reference_codes)
     IN IF missing_codes # <<>>
        THEN /\ csv_file' =
                  [written |-> TRUE,
                   rows |-> build_missing_olz_data(df, missing_codes)]
             /\ result' = [success |-> TRUE,
                           message |-> "Arquivo gerado com faltantes",
                           output_file |-> <<"OLZ FALTANTES.csv">>,
                           found |-> Cardinality(input_olz_codes),
                           generated_relationships |-> Len(missing_codes)]
        ELSE /\ csv_file' = csv_file
             /\ result' = [success |-> TRUE,
                           message |-> "Nenhum arquivo foi gerado",
                           output_file |-> None,
                           found |-> Cardinality(input_olz_codes),
                           generated_relationships |-> 0]
  /\ pc' = "done"
  /\ UNCHANGED <<codeVars, levelVars, classifierVars, builderVars,
                 requestVars, report_file, report_records>>

NextOlz == SiblingRead \/ SiblingReadFails \/ SiblingProcess \/ OlzVerify

SpecOlz == InitOlz /\ [][NextOlz]_vars

\* the OLZ codes of the table that the reference sheet does not hold
AbsentOlzCodes ==
  {c \in extract_unique_olz_codes(df) : Head(c) = "Z"} \ reference_codes

\* C30 as stated: _extract_unique_olz_codes returns only codes that start
\* with 'Z', so the missing-code list of convert holds only 'Z' codes, and
\* the file of the missing parts is written only when some OLZ code of the
\* table is absent from the reference.
C30_AsStated ==
  pc = "done" /\ result.success =>
     /\ \A c \in extract_unique_olz_codes(df) : Head(c) = "Z"
     /\ result.generated_relationships = Cardinality(AbsentOlzCodes)
     /\ csv_file.written => AbsentOlzCodes # {}

\* C30, what the converter guarantees: the rows of the file are the absent
\* OLZ codes, once each, and no file is written when every code of the table
\* is in the reference
C30_RowsAreAbsentOlz ==
  pc = "done" /\ result.success =>
     /\ {csv_file.rows[k].Codigo : k \in 1..Len(csv_file.rows)}
           = IF csv_file.written THEN AbsentOlzCodes ELSE {}
     /\ Len(csv_file.rows) <= Cardinality(AbsentOlzCodes)
     /\ extract_unique_olz_codes(df) \subseteq reference_codes
           => ~csv_file.written

\* ------------------------------------------------------------------------
\* The legacy single-file application (OLGConverterApp)
\* ------------------------------------------------------------------------
MaxThreads == 2

\* sanitize_assembly_code: letters, digits and periods are kept, in upper
\* case
sanitize_assembly_code(text) ==
  LET Kept(c) == c \in Letters \cup Digits \cup {"."}
  IN upper(SelectSeq(text, Kept))

\* what the user may leave in the assembly code field by a key press
KeyTexts == {<<>>, <<" ">>, <<"a">>, <<"A">>, <<"A", " ">>, <<"1">>}
\* the files the user may pick in the dialog; they exist throughout
Files == {<<"a", ".", "x", "l", "s", "x">>, <<"b", ".", "x", "l", "s", "x">>}

\* update_convert_button_state: the state it gives the convert button
update_convert_button_state(a) ==
  LET file_selected == a.selected_input_file # None
      code_not_empty == strip(a.assembly_code_entry) # <<>>
      not_completed == ~a.conversion_completed
  IN IF file_selected /\ code_not_empty /\ not_completed
     THEN [a EXCEPT !.convert_button = "normal"]
     ELSE [a EXCEPT !.convert_button = "disabled"]

\* check_for_changes: the hash of a file stands for the file itself
check_for_changes(a) ==
  \/ a.selected_input_file # None
       /\ a.selected_input_file # a.last_input_file_hash
  \/ strip(a.assembly_code_entry) # a.last_assembly_code

reset_conversion_state(a) ==
  [a EXCEPT !.conversion_completed = FALSE, !.convert_button = "disabled"]

update_state_tracking(a) ==
  [a EXCEPT !.last_input_file_hash =
               IF a.selected_input_file # None THEN a.selected_input_file
               ELSE @,
            !.last_assembly_code = strip(a.assembly_code_entry)]

\* OLGConverterApp.__init__
LegacyStart ==
  [selected_input_file |-> None,
   assembly_code_entry |-> <<>>,
   last_input_file_hash |-> None,
   last_assembly_code |-> None,
   conversion_completed |-> FALSE,
   convert_button |-> "disabled"]

InitLegacy ==
  /\ pc = "mainloop"
  /\ app = LegacyStart
  /\ threads = <<>>
  /\ entry_point = "none"
  /\ conversion_type = "none"
  /\ request = [input_file |-> NaN, assembly_code |-> NaN]
  /\ file_rows = <<>>
  /\ reference_codes = {}
  /\ csv_file = NoFile
  /\ report_file = FALSE
  /\ report_records = <<>>
  /\ result = NoResult
  /\ df = <<>> /\ index = 0 /\ classifier = ClassifierStart /\ stats = NoStats
  /\ CodeIdle /\ LevelIdle /\ BuilderIdle

\* what no callback of the application touches
LegacyRest ==
  <<pc, codeVars, levelVars, classifierVars, builderVars, entry_point,
    conversion_type, request, file_rows, reference_codes, csv_file,
    report_file, report_records, result>>

\* browse_file: the user picks a valid file in the dialog
browse_file ==
  \E input_file \in Files :
     LET cleared == IF input_file # app.selected_input_file
                    THEN reset_conversion_state(app) ELSE app
         chosen == [cleared EXCEPT !.selected_input_file = input_file]
     IN /\ app' = update_state_tracking(update_convert_button_state(chosen))
        /\ UNCHANGED <<threads, LegacyRest>>

\* on_assembly_code_change: a key is released in the assembly code field
on_assembly_code_change ==
  \E current_text \in KeyTexts :
     LET sanitized ==
           [app EXCEPT !.assembly_code_entry =
                          sanitize_assembly_code(current_text)]
     IN /\ app' = update_state_tracking(update_convert_button_state(sanitized))
        /\ UNCHANGED <<threads, LegacyRest>>

\* schedule_file_check: the callback that root.after runs every two seconds
schedule_file_check ==
  /\ app' = update_convert_button_state(app)
  /\ UNCHANGED <<threads, LegacyRest>>

\* run_conversion, the command of the convert button, which Tk runs only
\* while the button is enabled; it ends in start_progress_simulation, which
\* disables the button and starts the thread of simulate_progress
run_conversion ==
  /\ app.convert_button = "normal"
  /\ Len(threads) < MaxThreads
  /\ IF app.selected_input_file = None \/ strip(app.assembly_code_entry) = <<>>
     THEN UNCHANGED <<app, threads>>
     ELSE LET checked == IF check_for_changes(app)
                         THEN reset_conversion_state(app) ELSE app
          IN /\ app' = [checked EXCEPT !.convert_button = "disabled"]
             /\ threads' = Append(threads, [at |-> "simulate", success |-> FALSE])
  /\ UNCHANGED LegacyRest

\* simulate_progress, the stages of the progress bar
SimulateStages(t) ==
  /\ threads[t].at = "simulate"
  /\ threads' = [threads EXCEPT ![t].at = "convert"]
  /\ UNCHANGED <<app, LegacyRest>>

\* simulate_progress, the call of xlsx_to_parent_child_csv and its return
SimulateConvert(t) ==
  /\ threads[t].at = "convert"
  /\ \E success \in BOOLEAN :
        threads' = [threads EXCEPT ![t] = [at |-> "returned", success |-> success]]
  /\ UNCHANGED <<app, LegacyRest>>

\* simulate_progress, 'self.convert_button.config(state=tk.NORMAL)'
SimulateReenable(t) ==
  /\ threads[t].at = "returned"
  /\ app' = [app EXCEPT !.convert_button = "normal"]
  /\ threads' = [threads EXCEPT ![t].at = "show"]
  /\ UNCHANGED LegacyRest

\* show_conversion_result, called by the thread of simulate_progress
show_conversion_result(t) ==
  /\ threads[t].at = "show"
  /\ app' = IF threads[t].success
            THEN update_state_tracking(
                   [app EXCEPT !.conversion_completed = TRUE,
                               !.convert_button = "disabled"])
            ELSE app
  /\ threads' = [threads EXCEPT ![t].at = "finished"]
  /\ UNCHANGED LegacyRest

simulate_progress ==
  \E t \in 1..Len(threads) :
     \/ SimulateStages(t)
     \/ SimulateConvert(t)
     \/ SimulateReenable(t)
     \/ show_conversion_result(t)

NextLegacy ==
  \/ browse_file
  \/ on_assembly_code_change
  \/ schedule_file_check
  \/ run_conversion
  \/ simulate_progress

SpecLegacy == InitLegacy /\ [][NextLegacy]_vars

\* the conversion threads that have not yet returned from
\* xlsx_to_parent_child_csv
InFlight == {t \in 1..Len(threads) : threads[t].at \in {"simulate", "convert"}}

\* C28 as stated: at most one conversion is in flight at any time; while a
\* conversion thread has not returned from xlsx_to_parent_child_csv the
\* convert button stays disabled, whatever the periodic check and the key
\* events do, so run_conversion cannot start a second thread.
C28_AsStated ==
  /\ InFlight # {} => app.convert_button = "disabled"
  /\ Cardinality(InFlight) <= 1

\* C28, what start_progress_simulation guarantees: the button is disabled at
\* the moment a thread starts
C28_DisabledAtStart ==
  [][Len(threads') > Len(threads) => app'.convert_button = "disabled"]_vars

\* ------------------------------------------------------------------------
\* The layered application (src/gui/app.py)
\* ------------------------------------------------------------------------
\* the conversion types of the radio buttons
RadioTypes ==
  {"HIERARCHICAL_STRUCTURE", "PARTS_REGISTRATION", "DESCRIPTION_UPDATE",
   "MATERIAL_UPDATE", "OLZ_VERIFICATION", "ALL_CONVERSIONS"}
\* the conversions of the sequence of _run_all_conversions
SequenceLength == 4

\* _update_convert_button_state: the state it gives the convert button
UpdateConvertButtonState(a) ==
  LET file_selected == a.selected_input_file # None
      type_selected == a.conversion_type_selected_by_user
      not_completed == ~a.conversion_completed
      code_not_empty == strip(a.assembly_code_entry) # <<>>
  IN IF a.conversion_in_progress
     THEN [a EXCEPT !.convert_button = "disabled"]
     ELSE IF file_selected /\ type_selected /\ code_not_empty /\ not_completed
     THEN [a EXCEPT !.convert_button = "normal"]
     ELSE [a EXCEPT !.convert_button = "disabled"]

\* _reset_conversion_state
ResetConversionState(a) ==
  [a EXCEPT !.conversion_completed = FALSE, !.conversion_in_progress = FALSE,
            !.open_file_button = "disabled", !.convert_button = "disabled"]

\* _show_conversion_result
ShowConversionResult(a, success) ==
  IF success
  THEN update_state_tracking([a EXCEPT !.open_file_button = "normal",
                                       !.conversion_completed = TRUE,
                                       !.conversion_in_progress = FALSE,
                                       !.convert_button = "disabled"])
  ELSE [a EXCEPT !.conversion_in_progress = FALSE]

\* _start_progress_simulation and _execute_conversion_direct, for the
\* result of multi_converter.convert
ExecuteConversionDirect(a, success) ==
  LET started == [a EXCEPT !.conversion_in_progress = TRUE,
                           !.convert_button = "disabled"]
      reenabled == [started EXCEPT !.convert_button = "normal"]
  IN ShowConversionResult(reenabled, success)

\* the loop of _run_all_conversions: the first 'successes' conversions of
\* the sequence succeed and show their result, the next one, if any, fails
RECURSIVE RunSequence(_, _, _)
RunSequence(a, i, successes) ==
  IF i > SequenceLength \/ i > successes THEN a
  ELSE RunSequence(ShowConversionResult(a, TRUE), i + 1, successes)

\* _run_all_conversions
RunAllConversions(a, successes) ==
  LET started == [a EXCEPT !.convert_button = "disabled",
                           !.open_file_button = "disabled",
                           !.conversion_in_progress = TRUE]
      ran == RunSequence(started, 1, successes)
  IN [ran EXCEPT !.conversion_completed = TRUE,
                 !.conversion_in_progress = FALSE,
                 !.convert_button = "normal",
                 !.open_file_button = "normal"]

\* __init__ and _apply_dev_defaults: with SOLID_DEV=1 the example file and
\* the default assembly code are filled in
LayeredStart(dev) ==
  LET fresh == [selected_input_file |-> None,
                assembly_code_entry |-> <<>>,
                last_input_file_hash |-> None,
                last_assembly_code |-> None,
                conversion_completed |-> FALSE,
                conversion_in_progress |-> FALSE,
                conversion_type_selected_by_user |-> FALSE,
                selected_conversion_type |-> "HIERARCHICAL_STRUCTURE",
                dev_mode_active |-> FALSE,
                open_file_button |-> "disabled",
                convert_button |-> "disabled"]
      filled == [fresh EXCEPT
                   !.dev_mode_active = TRUE,
                   !.selected_input_file = <<"a", ".", "x", "l", "s", "x">>,
                   !.assembly_code_entry = <<"A">>]
  IN IF dev THEN UpdateConvertButtonState(update_state_tracking(filled))
     ELSE fresh

InitLayered ==
  /\ pc = "mainloop"
  /\ \E dev \in BOOLEAN : app = LayeredStart(dev)
  /\ threads = <<>>
  /\ entry_point = "none"
  /\ conversion_type = "none"
  /\ request = [input_file |-> NaN, assembly_code |-> NaN]
  /\ file_rows = <<>>
  /\ reference_codes = {}
  /\ csv_file = NoFile
  /\ report_file = FALSE
  /\ report_records = <<>>
  /\ result = NoResult
  /\ df = <<>> /\ index = 0 /\ classifier = ClassifierStart /\ stats = NoStats
  /\ CodeIdle /\ LevelIdle /\ BuilderIdle

\* _browse_file: the user picks a valid file in the dialog
BrowseFile ==
  \E input_file \in Files :
     LET cleared == IF input_file # app.selected_input_file
                    THEN ResetConversionState(app) ELSE app
         chosen == [cleared EXCEPT !.selected_input_file = input_file]
     IN /\ app' = update_state_tracking(UpdateConvertButtonState(chosen))
        /\ UNCHANGED <<threads, LegacyRest>>

\* _on_conversion_type_change: the user clicks a radio button
OnConversionTypeChange ==
  \E selected_value \in RadioTypes :
     /\ app' = UpdateConvertButtonState(
                 [app EXCEPT !.selected_conversion_type = selected_value,
                             !.conversion_type_selected_by_user = TRUE,
                             !.conversion_completed = FALSE,
                             !.open_file_button = "disabled"])
     /\ UNCHANGED <<threads, LegacyRest>>

\* _on_assembly_code_change: a key is released in the assembly code field
OnAssemblyCodeChange ==
  \E current_text \in KeyTexts :
     LET sanitized ==
           [app EXCEPT !.assembly_code_entry =
                          sanitize_assembly_code(current_text)]
     IN /\ app' = update_state_tracking(UpdateConvertButtonState(sanitized))
        /\ UNCHANGED <<threads, LegacyRest>>

\* _run_conversion, the command of the convert button, with the conversion
\* it runs to its end: all conversions, the immediate one of the developer
\* mode, or the single one
RunConversion ==
  /\ app.convert_button = "normal"
  /\ IF app.selected_input_file = None \/ strip(app.assembly_code_entry) = <<>>
     THEN UNCHANGED app
     ELSE LET checked == IF check_for_changes(app)
                         THEN ResetConversionState(app) ELSE app
          IN IF checked.selected_conversion_type = "ALL_CONVERSIONS"
             THEN \E successes \in 0..SequenceLength :
                     app' = RunAllConversions(checked, successes)
             ELSE IF checked.dev_mode_active
             THEN app' = checked
             ELSE \E success \in BOOLEAN :
                     app' = ExecuteConversionDirect(checked, success)
  /\ UNCHANGED <<threads, LegacyRest>>

NextLayered ==
  \/ BrowseFile
  \/ OnConversionTypeChange
  \/ OnAssemblyCodeChange
  \/ RunConversion

SpecLayered == InitLayered /\ [][NextLayered]_vars

\* C29 as stated: in every reachable state the convert button is enabled
\* only if a file is selected, a conversion type was selected by the user,
\* the assembly code field is not empty, conversion_completed is false and
\* conversion_in_progress is false.
C29_AsStated ==
  app.convert_button = "normal" =>
     /\ app.selected_input_file # None
     /\ app.conversion_type_selected_by_user
     /\ strip(app.assembly_code_entry) # <<>>
     /\ ~app.conversion_completed
     /\ ~app.conversion_in_progress

\* C29, what holds of every reachable state: the button is enabled only if
\* a file is selected, a type was selected, the field is not empty and no
\* conversion is in progress
C29_WithoutCompleted ==
  app.convert_button = "normal" =>
     /\ app.selected_input_file # None
     /\ app.conversion_type_selected_by_user
     /\ strip(app.assembly_code_entry) # <<>>
     /\ ~app.conversion_in_progress

====
